---- MODULE Spec2Model ----
(***************************************************************************)
(* Verification model of the fantasy-squad optimisers of fpl_player.       *)
(*                                                                         *)
(* The optimisers are mixed-integer programs handed to a solver.  A solve  *)
(* is modelled as the solver's choice of values for the decision           *)
(* variables, filtered by the constraints the code adds to the problem:    *)
(* every constraint of the code is an operator of this module, named after *)
(* the constraint's name in the code.  Prices are integers (tenths of a    *)
(* million, the unit of now_cost).                                         *)
(***************************************************************************)
EXTENDS Integers, Sequences, FiniteSets, TLC

(***************************************************************************)
(* Bounds of the model.                                                    *)
(***************************************************************************)
NPlayers == 17       \* size of the player universe handed to the optimiser
MaxGws == 3          \* longest horizon (number of gameweeks in all_gws)
MaxTransfers == 1    \* most buys the solver is followed through in one gameweek
MaxInitFts == 2      \* largest initial_fts supplied by the caller
NTeams == 5          \* number of teams of the catalogue
NVariants == 3       \* number of catalogue variants (attributes of the extra players)
MaxExcluded == 1     \* most players left out of, or unavailable in, a selector's catalogue
MaxLeftover == 1     \* most variables an unsuccessful solve leaves at the value 1
MaxSuggested == 3    \* largest num_transfers asked of suggest_transfers
MaxCalls == 3        \* most calls of the manager loaders in one working directory

(***************************************************************************)
(* Program constants.                                                      *)
(***************************************************************************)
SQUAD_SIZE == 15
XI_SIZE == 11
TEAM_LIMIT == 3
FT_LOW == 1
FT_UP == 2
HIT_COST == 4

POS_LIMITS_TwoForwards == (1 :> 2) @@ (2 :> 5) @@ (3 :> 6) @@ (4 :> 2)
POS_LIMITS == (1 :> 2) @@ (2 :> 5) @@ (3 :> 5) @@ (4 :> 3)
FORMATION_MIN == (1 :> 1) @@ (2 :> 3) @@ (3 :> 2) @@ (4 :> 1)
FORMATION_MAX == (1 :> 1) @@ (2 :> 5) @@ (3 :> 5) @@ (4 :> 3)

VARIABLES
    args,      \* the arguments of the call under study
    pc,        \* "start", "built", "solving", "done", "lineup", "reported",
               \* "returned", "printed"
    status,    \* outcome of build + solve: the solver's status or the exception
    X,         \* X[t]: the set of players i with X_i_t = 1
    I,         \* I[t]: players bought in transfer gameweek t
    O,         \* O[t]: players sold in transfer gameweek t
    FT,        \* FT[t]
    T_Free,    \* T_Free[t]
    P,         \* P[t]
    S,         \* S[t]: the starters of gameweek t
    C,         \* C[t]: the players i with C_i_t = 1
    gameweek_reports,  \* report_mgo_strategy: the report of each gameweek
    result,    \* the value a single-gameweek optimiser returned
    printed,   \* the lines a reporter printed
    first_call, \* the outcome of the caller's earlier call of a squad selector
    files      \* the cache files of the working directory: name -> JSON content

vars == <<args, pc, status, X, I, O, FT, T_Free, P, S, C, gameweek_reports,
          result, printed, first_call, files>>
lineupVars == <<S, C>>
mgoVars == <<X, I, O, FT, T_Free, P, S, C, gameweek_reports>>
selectVars == <<result, printed, first_call, files>>

RECURSIVE Sum(_, _)
Sum(f, set) == IF set = {} THEN 0
               ELSE LET e == CHOOSE e \in set : TRUE IN f[e] + Sum(f, set \ {e})

PLAYERS == 1..NPlayers
TEAMS == 1..NTeams
Extras == {p \in PLAYERS : p > SQUAD_SIZE}

Ind(b) == IF b THEN 1 ELSE 0

(***************************************************************************)
(* The catalogue.  Players 1..15 are a squad of legal composition (2       *)
(* keepers, 5 defenders, 5 midfielders, 3 forwards, three players of each  *)
(* of the first teams); the players above 15 are the alternatives the      *)
(* optimiser may buy, whose position, team and price depend on the         *)
(* catalogue variant v.  This is the data prepare_mgo_utility_data reads   *)
(* from the bootstrap file: element_type (1-4), team and now_cost.         *)
(***************************************************************************)
Base == 1..SQUAD_SIZE
OutsideId == NPlayers + 1    \* an id the universe does not contain

CatPosition(p, v) ==
    IF p <= 2 THEN 1
    ELSE IF p <= 7 THEN 2
    ELSE IF p <= 12 THEN 3
    ELSE IF p <= SQUAD_SIZE THEN 4
    ELSE ((p + v) % 4) + 1

CatTeam(p, v) ==
    IF p <= SQUAD_SIZE THEN ((p - 1) % NTeams) + 1
    ELSE ((p * v) % NTeams) + 1

CatCost(p, v) ==
    IF p <= SQUAD_SIZE THEN 40 + 5 * ((3 * p) % 4)
    ELSE 40 + 5 * ((p + 2 * v) % 5)

CatScore(p, t, v) == 4 * ((p * (v + 2) + 3 * t * (p % 3)) % 7) + (p % 4)

prepare_mgo_utility_data(v, missing) ==
    [player_costs |->
        [p \in (IF missing = "cost" THEN PLAYERS \ {NPlayers} ELSE PLAYERS)
            |-> CatCost(p, v)],
     player_positions |->
        [p \in (IF missing = "position" THEN PLAYERS \ {NPlayers} ELSE PLAYERS)
            |-> CatPosition(p, v)],
     player_teams |->
        [p \in (IF missing = "team" THEN PLAYERS \ {NPlayers} ELSE PLAYERS)
            |-> CatTeam(p, v)],
     all_team_ids |-> TEAMS]

(***************************************************************************)
(* The initial squads a caller may hand over: the legal squad, the squads  *)
(* one swap away from it (legal or not), and malformed ones: a member      *)
(* short, a member too many, a member outside the universe.                *)
(***************************************************************************)
InitialSquads ==
    {Base}
    \cup {(Base \ {o}) \cup {e} : o \in Base, e \in Extras}
    \cup {Base \ {o} : o \in {1, 8}}
    \cup {Base \cup {e} : e \in Extras}
    \cup {(Base \ {3}) \cup {OutsideId}}

ItbChoices == {0, 5}
ValueDrops == {0, 5}
MissingChoices == {"none", "cost", "position", "team"}

SquadCost(sq, v) == Sum([p \in PLAYERS |-> CatCost(p, v)], sq \cap PLAYERS)

\* the two scripts that build, solve and report a plan
Callers == {"fantasy_player.py", "fantacy_pulp.py"}

Init ==
    /\ \E caller \in Callers, v \in 1..NVariants, n \in 1..MaxGws, sq \in InitialSquads,
          fts \in 0..MaxInitFts, itb \in ItbChoices, drop \in ValueDrops,
          missing \in MissingChoices :
         /\ caller = "fantacy_pulp.py" =>
               sq = Base /\ fts = 1 /\ drop = 0 /\ missing = "none"
         /\ args = [caller |-> caller,
                    variant |-> v,
                    missing |-> missing,
                    all_gws |-> [k \in 1..n |-> k],
                    initial_squad_ids |-> sq,
                    initial_money_itb |-> itb,
                    initial_team_value |-> SquadCost(sq, v) - drop,
                    initial_fts |-> fts]
    /\ pc = "start"
    /\ status = "NotSolved"
    /\ X = << >>
    /\ I = << >>
    /\ O = << >>
    /\ FT = << >>
    /\ T_Free = << >>
    /\ P = << >>
    /\ S = << >>
    /\ C = << >>
    /\ gameweek_reports = << >>
    /\ result = << >>
    /\ printed = << >>
    /\ first_call = << >>
    /\ files = << >>

(***************************************************************************)
(* The remaining arguments of solve_multi_gameweek_optimization, read from *)
(* the catalogue the call was given.                                       *)
(***************************************************************************)
player_costs == prepare_mgo_utility_data(args.variant, args.missing).player_costs
player_positions == prepare_mgo_utility_data(args.variant, args.missing).player_positions
player_teams == prepare_mgo_utility_data(args.variant, args.missing).player_teams
all_team_ids == prepare_mgo_utility_data(args.variant, args.missing).all_team_ids
\* the forecast of a player the caller marks as collapsed is 0 from the
\* second gameweek on
player_scores_matr == [k \in PLAYERS \X DOMAIN args.all_gws |->
                          IF /\ "collapsed" \in DOMAIN args
                             /\ k[1] = args.collapsed
                             /\ k[2] > 1
                          THEN 0
                          ELSE CatScore(k[1], k[2], args.variant)]

ALL_GWS == args.all_gws
TRANSFER_GWS_FromFirst == DOMAIN ALL_GWS
TRANSFER_GWS == {t \in DOMAIN ALL_GWS : t > 1}
t_start == 1

(***************************************************************************)
(* The constraints of solve_multi_gameweek_optimization, each over the     *)
(* values of one gameweek's decision variables.  A set stands for the      *)
(* binary variables that are 1.                                            *)
(***************************************************************************)
\* A. X_i_t - X_i_prev + O_i_t - I_i_t == 0, for every player
Squad_Continuity(xcur, xprev, in, out) ==
    \A i \in PLAYERS :
        Ind(i \in xcur) - Ind(i \in xprev) + Ind(i \in out) - Ind(i \in in) = 0

\* B. buys = sells
Transfer_Balance(in, out) == Cardinality(in) = Cardinality(out)

\* C. buys = T_Free + P
Total_Transfers_Link(in, tfree, p) == Cardinality(in) = tfree + p

\* D. T_Free <= FT
FT_Usage_Limit(tfree, ft) == tfree <= ft

\* E. first transition: FT - initial_fts + T_Free == 1
FT_Carryover_Initial(ft, tfree) == ft - args.initial_fts + tfree = 1

\* E. later transitions: FT_t - FT_prev + T_Free_prev == 1
FT_Carryover_Standard(ft, ftprev, tfreeprev) == ft - ftprev + tfreeprev = 1

\* F. X_i_first is 1 for the members of the initial squad and 0 otherwise
Initial_Squad_Fix(x) ==
    \A i \in PLAYERS : Ind(i \in x) = Ind(i \in args.initial_squad_ids)

\* G. the squad of the first gameweek costs at most team value + bank
Budget_Limit(x) ==
    Sum(player_costs, x) <= args.initial_team_value + args.initial_money_itb

\* (mutant) the whole buying power is added in place of the bank
Dynamic_Budget_T1_BuyingPower(in, out) ==
    Sum(player_costs, in) <=
        Sum(player_costs, out) + args.initial_team_value + args.initial_money_itb

\* G. first transfer gameweek: buys <= sells + bank
Dynamic_Budget_T1(in, out) ==
    Sum(player_costs, in) <= Sum(player_costs, out) + args.initial_money_itb

\* (mutant) the bank is added in every transfer gameweek
Dynamic_Budget_Subsequent_WithBank(in, out) ==
    Sum(player_costs, in) <= Sum(player_costs, out) + args.initial_money_itb

\* G. later transfer gameweeks: buys <= sells
Dynamic_Budget_Subsequent(in, out) ==
    Sum(player_costs, in) <= Sum(player_costs, out)

\* H. 15 players
Squad_Size(x) == Cardinality(x) = SQUAD_SIZE

\* (mutant) the position limits are one too large
Max_Pos_Limit_OffByOne(x) ==
    \A pos \in DOMAIN POS_LIMITS :
        Cardinality({i \in x : player_positions[i] = pos}) <= POS_LIMITS[pos] + 1

\* H. at most POS_LIMITS[pos] players of each position
Max_Pos_Limit(x) ==
    \A pos \in DOMAIN POS_LIMITS :
        Cardinality({i \in x : player_positions[i] = pos}) <= POS_LIMITS[pos]

\* I. at most 3 players of each team of all_team_ids
Team_Limit(x) ==
    \A team \in all_team_ids :
        Cardinality({i \in x : player_teams[i] = team}) <= TEAM_LIMIT

\* the bounds of the integer variables FT, T_Free and P
FT_Bounds(ft) == ft >= FT_LOW /\ ft <= FT_UP
T_Free_Bounds(tfree) == tfree >= 0
P_Bounds(p) == p >= 0

\* the constraints on the squad of one gameweek
StaticSquadConstraints(x) ==
    /\ Squad_Size(x)
    /\ Max_Pos_Limit(x)
    /\ Team_Limit(x)

\* the budget constraint of transfer gameweek t
Dynamic_Budget(t, in, out) ==
    IF t - 1 = t_start THEN Dynamic_Budget_T1(in, out)
                       ELSE Dynamic_Budget_Subsequent(in, out)

\* the carry-over constraint of transfer gameweek t
FT_Carryover(t, ft, tfree) ==
    IF t - 1 = t_start THEN FT_Carryover_Initial(ft, tfree)
                       ELSE FT_Carryover_Standard(ft, FT[t - 1], T_Free[t - 1])

\* the constraints on the free-transfer ledger of transfer gameweek t
LedgerConstraints(t, in, ft, tfree, p) ==
    /\ FT_Bounds(ft) /\ T_Free_Bounds(tfree) /\ P_Bounds(p)
    /\ Total_Transfers_Link(in, tfree, p)
    /\ FT_Usage_Limit(tfree, ft)
    /\ FT_Carryover(t, ft, tfree)

(***************************************************************************)
(* solve_multi_gameweek_optimization: building the problem.  The lookups   *)
(* fail in the order the code makes them: player_costs (Budget_Limit),     *)
(* TRANSFER_GWS[0], player_positions (Max_Pos_Limit), player_teams         *)
(* (Team_Limit).  Nothing in the function inspects initial_squad_ids.      *)
(***************************************************************************)
solve_multi_gameweek_optimization ==
    /\ pc = "start"
    /\ pc' = IF /\ PLAYERS \subseteq DOMAIN player_costs
                /\ TRANSFER_GWS # {}
                /\ PLAYERS \subseteq DOMAIN player_positions
                /\ PLAYERS \subseteq DOMAIN player_teams
             THEN "built" ELSE "done"
    /\ status' = IF ~(PLAYERS \subseteq DOMAIN player_costs) THEN "KeyError"
                 ELSE IF TRANSFER_GWS = {} THEN "IndexError"
                 ELSE IF ~(PLAYERS \subseteq DOMAIN player_positions) THEN "KeyError"
                 ELSE IF ~(PLAYERS \subseteq DOMAIN player_teams) THEN "KeyError"
                 ELSE "NotSolved"
    /\ UNCHANGED <<args, X, I, O, FT, T_Free, P, lineupVars, gameweek_reports, selectVars>>

(***************************************************************************)
(* mgo_problem.solve(): the first gameweek.  Initial_Squad_Fix leaves one  *)
(* value for X at the first gameweek; when it breaks a constraint of that  *)
(* gameweek the problem has no solution and the solver reports Infeasible. *)
(***************************************************************************)
FixedSquad == {i \in PLAYERS : i \in args.initial_squad_ids}

SolveFirstGW ==
    /\ pc = "built"
    /\ Initial_Squad_Fix(FixedSquad)
    /\ IF StaticSquadConstraints(FixedSquad) /\ Budget_Limit(FixedSquad)
          THEN /\ X' = (t_start :> FixedSquad)
               /\ pc' = "solving"
               /\ status' = status
          ELSE /\ X' = X
               /\ pc' = "done"
               /\ status' = "Infeasible"
    /\ UNCHANGED <<args, I, O, FT, T_Free, P, lineupVars, gameweek_reports, selectVars>>

(***************************************************************************)
(* mgo_problem.solve(): transfer gameweek t, any values of its variables   *)
(* that satisfy the constraints.  The solver is followed through at most   *)
(* MaxTransfers buys a gameweek.                                           *)
(***************************************************************************)
RECURSIVE SubsetsUpTo(_, _)
SubsetsUpTo(set, k) ==
    IF k = 0 THEN {{}}
    ELSE LET r == SubsetsUpTo(set, k - 1) IN r \cup {s \cup {e} : s \in r, e \in set}

TransferSets == SubsetsUpTo(PLAYERS, MaxTransfers)

SolveTransferGW ==
    /\ pc = "solving"
    /\ LET t == Len(X) + 1 IN
       \E in \in TransferSets, out \in TransferSets :
          /\ Transfer_Balance(in, out)
          /\ Dynamic_Budget(t, in, out)
          /\ \E xcur \in {(X[t - 1] \ a) \cup b : a \in SUBSET out, b \in SUBSET in} :
                /\ Squad_Continuity(xcur, X[t - 1], in, out)
                /\ StaticSquadConstraints(xcur)
                /\ \E ft \in (FT_LOW - 1)..(FT_UP + 1), tfree \in 0..MaxTransfers,
                      p \in 0..MaxTransfers :
                      /\ LedgerConstraints(t, in, ft, tfree, p)
                      /\ X' = X @@ (t :> xcur)
                      /\ I' = I @@ (t :> in)
                      /\ O' = O @@ (t :> out)
                      /\ FT' = FT @@ (t :> ft)
                      /\ T_Free' = T_Free @@ (t :> tfree)
                      /\ P' = P @@ (t :> p)
                      /\ pc' = IF t = Len(ALL_GWS) THEN "done" ELSE "solving"
                      /\ status' = IF t = Len(ALL_GWS) THEN "Optimal" ELSE status
    /\ UNCHANGED <<args, lineupVars, gameweek_reports, selectVars>>

Next ==
    \/ solve_multi_gameweek_optimization
    \/ SolveFirstGW
    \/ SolveTransferGW

Spec == Init /\ [][Next]_vars

(***************************************************************************)
(* The lineup constraints of solve_multi_gameweek_optimization (section J  *)
(* of the function), over the starters st and the captain set c of one     *)
(* gameweek whose squad is x.  The Bench_Boost variables B are declared by *)
(* the code and appear in no constraint and not in the objective.          *)
(***************************************************************************)
\* J. 11 starters
XI_Size(st) == Cardinality(st) = XI_SIZE

\* J. one captain
Captain_Count(c) == Cardinality(c) = 1

\* (mutant) the joint model asks for four defenders
Min_Form_FourDefenders(st) ==
    \A pos \in DOMAIN POS_LIMITS :
        Cardinality({i \in st : player_positions[i] = pos})
            >= (IF pos = 2 THEN 4 ELSE FORMATION_MIN[pos])

\* J. at least FORMATION_MIN[pos] starters of each position
Min_Form(st) ==
    \A pos \in DOMAIN POS_LIMITS :
        Cardinality({i \in st : player_positions[i] = pos}) >= FORMATION_MIN[pos]

\* J. at most FORMATION_MAX[pos] starters of each position
Max_Form(st) ==
    \A pos \in DOMAIN POS_LIMITS :
        Cardinality({i \in st : player_positions[i] = pos}) <= FORMATION_MAX[pos]

\* (mutant) the starters are tied to the squad of the first gameweek
Starter_In_Squad_FirstGW(st, x) ==
    \A i \in PLAYERS : Ind(i \in st) <= Ind(i \in X[t_start])

\* J. S_i_t <= X_i_t
Starter_In_Squad(st, x) == \A i \in PLAYERS : Ind(i \in st) <= Ind(i \in x)

\* J. C_i_t <= S_i_t
Captain_Is_Starter(c, st) == \A i \in PLAYERS : Ind(i \in c) <= Ind(i \in st)

\* the values the solver may try for the starters and for the captain
BenchSizes == (NPlayers - XI_SIZE - 1)..(NPlayers - XI_SIZE + 1)
StarterSets ==
    {PLAYERS \ b : b \in {bb \in SubsetsUpTo(PLAYERS, NPlayers - XI_SIZE + 1) :
                              Cardinality(bb) \in BenchSizes}}
CaptainSets == SubsetsUpTo(PLAYERS, 2)

(***************************************************************************)
(* mgo_problem.solve(): the lineup variables.  The constraints J tie S and *)
(* C of a gameweek to X of that gameweek alone, so the lineup of each      *)
(* gameweek is chosen on its own; the model follows the lineup of the      *)
(* gameweek the squad was last decided for.                                *)
(***************************************************************************)
SolveLineupGW ==
    /\ pc \in {"solving", "done"}
    /\ Len(X) >= 1
    /\ LET t == Len(X) IN
       \E st \in StarterSets :
          /\ XI_Size(st) /\ Min_Form(st) /\ Max_Form(st)
          /\ Starter_In_Squad(st, X[t])
          /\ \E c \in CaptainSets :
                /\ Captain_Count(c)
                /\ Captain_Is_Starter(c, st)
                /\ S' = (t :> st)
                /\ C' = (t :> c)
    /\ pc' = "lineup"
    /\ UNCHANGED <<args, status, X, I, O, FT, T_Free, P, gameweek_reports, selectVars>>

(***************************************************************************)
(* A plan for the squad the caller holds: two gameweeks, one free          *)
(* transfer, 0.5 in the bank.                                              *)
(***************************************************************************)
InitPlan ==
    /\ Init
    /\ args.missing = "none"
    /\ args.initial_squad_ids = Base
    /\ Len(args.all_gws) = 2
    /\ args.initial_fts = 1
    /\ args.initial_money_itb = 5
    /\ args.initial_team_value = SquadCost(Base, args.variant)

\* report_mgo_strategy called on its own with the solved problem, whatever
\* its status: here with initial squads no plan exists for
InitDirect ==
    /\ \E sq \in {Base \ {8}, Base \cup {SQUAD_SIZE + 1}}, itb \in ItbChoices,
          fts \in 0..MaxInitFts, n \in 2..MaxGws :
          args = [caller |-> "direct",
                  variant |-> 2,
                  missing |-> "none",
                  all_gws |-> [k \in 1..n |-> k],
                  initial_squad_ids |-> sq,
                  initial_money_itb |-> itb,
                  initial_team_value |-> SquadCost(sq, 2),
                  initial_fts |-> fts]
    /\ pc = "start"
    /\ status = "NotSolved"
    /\ X = << >>
    /\ I = << >>
    /\ O = << >>
    /\ FT = << >>
    /\ T_Free = << >>
    /\ P = << >>
    /\ S = << >>
    /\ C = << >>
    /\ gameweek_reports = << >>
    /\ result = << >>
    /\ printed = << >>
    /\ first_call = << >>
    /\ files = << >>

InitReport == (InitPlan /\ args.variant = 2) \/ InitDirect

InitLineup == InitReport /\ args.caller = "fantacy_pulp.py"

NextLineup ==
    \/ solve_multi_gameweek_optimization
    \/ SolveFirstGW
    \/ SolveTransferGW
    \/ SolveLineupGW

SpecLineup == InitLineup /\ [][NextLineup]_vars

(***************************************************************************)
(* run_starting_xi_optimization(optimal_squad): the lineup problem over    *)
(* the players ids of a squad, with the scores matr and the positions the  *)
(* squad's records carry.  st, c and vc are the sets of players whose      *)
(* Starter, Captain and ViceCaptain variable is 1.                         *)
(***************************************************************************)
NoPlayer == 0      \* None: no captain, no vice-captain

PosOf(i) == CatPosition(i, args.variant)

C_Starting_XI_Size(st) == Cardinality(st) = 11
C_One_Captain(c) == Cardinality(c) = 1
C_Captain_Is_Starter(ids, c, st) == \A i \in ids : Ind(i \in c) <= Ind(i \in st)
C_One_ViceCaptain(vc) == Cardinality(vc) = 1
C_VC_Is_Starter(ids, vc, st) == \A i \in ids : Ind(i \in vc) <= Ind(i \in st)

C_C_and_VC_are_Different_Dropped(ids, c, vc) == TRUE
C_C_and_VC_are_Different(ids, c, vc) ==
    \A i \in ids : Ind(i \in c) + Ind(i \in vc) <= 1
C_GKP_Must_Start_One(st) == Cardinality({i \in st : PosOf(i) = 1}) = 1
C_DEF_Min_3(st) == Cardinality({i \in st : PosOf(i) = 2}) >= 3
C_DEF_Max_5(st) == Cardinality({i \in st : PosOf(i) = 2}) <= 5
C_MID_Min_2(st) == Cardinality({i \in st : PosOf(i) = 3}) >= 2
C_MID_Max_5(st) == Cardinality({i \in st : PosOf(i) = 3}) <= 5
C_FWD_Min_4(st) == Cardinality({i \in st : PosOf(i) = 4}) >= 4
C_FWD_Min_1(st) == Cardinality({i \in st : PosOf(i) = 4}) >= 1
C_FWD_Max_3(st) == Cardinality({i \in st : PosOf(i) = 4}) <= 3

\* Total_Starting_XI_Score: the starters' scores, the captain's once more
Total_Starting_XI_Score_CaptainOnce(st, c, matr) == Sum(matr, st)
Total_Starting_XI_Score(st, c, matr) == Sum(matr, st) + Sum(matr, c)

MaxOf(set) == CHOOSE m \in set : \A o \in set : o <= m

\* the benches worth trying: a lineup of fewer than eleven starters never
\* meets the size constraint
XIBenches(ids) ==
    SubsetsUpTo(ids, IF Cardinality(ids) > 11 THEN Cardinality(ids) - 11 ELSE 0)

\* the starter sets that satisfy the size and formation constraints
XIStarters(ids) ==
    {st \in {ids \ b : b \in XIBenches(ids)} :
        /\ C_Starting_XI_Size(st)
        /\ C_GKP_Must_Start_One(st)
        /\ C_DEF_Min_3(st) /\ C_DEF_Max_5(st)
        /\ C_MID_Min_2(st) /\ C_MID_Max_5(st)
        /\ C_FWD_Min_1(st) /\ C_FWD_Max_3(st)}

XICaptains(ids) == {c \in SubsetsUpTo(ids, 2) : C_One_Captain(c)}

\* the (starters, captain) pairs that satisfy the constraints
XILineups(ids) ==
    {pair \in XIStarters(ids) \X XICaptains(ids) :
        C_Captain_Is_Starter(ids, pair[2], pair[1])}

\* the vice-captain constraints, given a lineup
XIViceCaptain(ids, st, c, vc) ==
    /\ C_One_ViceCaptain(vc)
    /\ C_VC_Is_Starter(ids, vc, st)
    /\ C_C_and_VC_are_Different(ids, c, vc)

\* lines 498-525: the result read off the solved variables
XIResult(ids, st, c, vc, score) ==
    [status |-> "Optimal",
     starting_xi |-> st,
     bench |-> ids \ st,
     max_xi_score |-> score,
     captain |-> IF c \cap st = {} THEN NoPlayer ELSE CHOOSE i \in c \cap st : TRUE,
     vice_captain |-> IF vc \cap st = {} THEN NoPlayer
                      ELSE CHOOSE i \in vc \cap st : TRUE]

\* lines 526-534
XINotOptimal ==
    [status |-> "Infeasible", starting_xi |-> {}, bench |-> {},
     max_xi_score |-> 0, captain |-> NoPlayer, vice_captain |-> NoPlayer]

\* every result the call can return: the solver stops at any optimal vertex
run_starting_xi_optimization(ids, matr) ==
    LET scored == {<<pair[1], pair[2], Total_Starting_XI_Score(pair[1], pair[2], matr)>> :
                      pair \in XILineups(ids)}
    IN IF scored = {} THEN {XINotOptimal}
       ELSE LET best == MaxOf({l[3] : l \in scored})
                optimal == {l \in scored : l[3] = best}
            IN {XIResult(ids, r[1][1], r[1][2], r[2], best) :
                   r \in {q \in optimal \X SubsetsUpTo(ids, 2) :
                             XIViceCaptain(ids, q[1][1], q[1][2], q[2])}}

(***************************************************************************)
(* report_mgo_strategy.  The callers build optimised_player_data from the  *)
(* ratings of the whole universe.                                          *)
(***************************************************************************)
optimised_player_data == PLAYERS

SquadSizeError(n) ==
    [status |-> "Squad Size Error", starting_xi |-> {}, bench |-> {},
     max_xi_score |-> 0, captain |-> NoPlayer, vice_captain |-> NoPlayer]

GameweekReport(t, squad, xi) ==
    [XI_Status |-> xi.status,
     Total_Score |-> IF xi.status = "Optimal" THEN xi.max_xi_score ELSE 0,
     Squad |-> IF xi.status = "Optimal" THEN xi.starting_xi \cup xi.bench ELSE squad,
     Starting_XI |-> xi.starting_xi,
     Bench |-> xi.bench,
     Captain |-> xi.captain,
     Vice_Captain |-> xi.vice_captain,
     Transfers_In |-> IF t > t_start THEN {i \in optimised_player_data : i \in I[t]} ELSE {},
     Transfers_Out |-> IF t > t_start THEN {i \in optimised_player_data : i \in O[t]} ELSE {},
     Hit |-> IF t > t_start THEN P[t] * 4 ELSE 0,
     FT_Available |-> IF t > t_start THEN FT[t] ELSE 0]

\* lines 36-152, one pass of the loop: the reports gameweek t can get
ReportsOfGameweek(t) ==
    LET optimal_squad_data == {i \in optimised_player_data : i \in X[t]}
        matr == [i \in optimal_squad_data |-> player_scores_matr[<<i, t>>]]
        xi_results == IF Cardinality(optimal_squad_data) = 15
                      THEN run_starting_xi_optimization(optimal_squad_data, matr)
                      ELSE {SquadSizeError(Cardinality(optimal_squad_data))}
    IN {GameweekReport(t, optimal_squad_data, xi) : xi \in xi_results}

\* the reports of the first k gameweeks, in order
RECURSIVE ReportsUpTo(_)
ReportsUpTo(k) ==
    IF k = 0 THEN {<< >>}
    ELSE LET earlier == ReportsUpTo(k - 1)
             last == ReportsOfGameweek(k)
         IN {Append(pair[1], pair[2]) : pair \in earlier \X last}

\* line 27
NotOptimalLines_AsHold(st) == <<[text |-> "HOLD", gw |-> 0]>>
NotOptimalLines(st) == <<[text |-> "MGO solution is not optimal. Status: ", status |-> st]>>

\* lines 160-184: the lines printed for gameweek gw
GameweekLines(gw, report) ==
    <<[text |-> "GAMEWEEK", gw |-> gw]>>
    \o (IF gw > t_start
        THEN (IF report.Transfers_In # {}
              THEN <<[text |-> "Transfers IN", gw |-> gw],
                     [text |-> "Transfers OUT", gw |-> gw],
                     [text |-> "Point Hit", gw |-> gw]>>
              ELSE <<[text |-> "HOLD", gw |-> gw]>>)
             \o <<[text |-> "FT Available Next GW", gw |-> gw]>>
        ELSE << >>)
    \o (IF report.XI_Status = "Optimal"
        THEN <<[text |-> "Captain", gw |-> gw],
               [text |-> "Vice-Captain", gw |-> gw],
               [text |-> "Expected XI Score", gw |-> gw],
               [text |-> "Starting XI", gw |-> gw],
               [text |-> "Bench", gw |-> gw]>>
        ELSE <<[text |-> "XI Selection Failed", gw |-> gw]>>)

\* lines 154-186
RECURSIVE PlanLines(_, _)
PlanLines(reports, k) ==
    IF k = 0 THEN <<[text |-> "OPTIMAL MGO PLAN", gw |-> 0]>>
    ELSE PlanLines(reports, k - 1) \o GameweekLines(k, reports[k])

\* fantacy_pulp.py calls the function for an Optimal solve only
report_mgo_strategy ==
    /\ pc = "done"
    /\ args.caller \in {"fantacy_pulp.py", "direct"}
    /\ args.caller = "fantacy_pulp.py" => status = "Optimal"
    /\ status \notin {"KeyError", "IndexError"}
    /\ IF status # "Optimal"
       THEN /\ printed' = NotOptimalLines(status)
            /\ gameweek_reports' = gameweek_reports
       ELSE /\ gameweek_reports' \in ReportsUpTo(Len(ALL_GWS))
            /\ printed' = PlanLines(gameweek_reports', Len(ALL_GWS))
    /\ pc' = "reported"
    /\ UNCHANGED <<args, status, X, I, O, FT, T_Free, P, lineupVars, result, first_call, files>>

\* fantasy_player.py calls report_mgo_strategy without all_player_data, a
\* parameter that has no default: the call raises before the body runs
fantasy_player_report ==
    /\ pc = "done"
    /\ status = "Optimal"
    /\ args.caller = "fantasy_player.py"
    /\ status' = "TypeError"
    /\ pc' = "reported"
    /\ UNCHANGED <<args, mgoVars, selectVars>>

NextReport ==
    \/ solve_multi_gameweek_optimization
    \/ SolveFirstGW
    \/ SolveTransferGW
    \/ report_mgo_strategy
    \/ fantasy_player_report

SpecReport == InitReport /\ [][NextReport]_vars

(***************************************************************************)
(* The single-gameweek optimisers: optimize_squad, run_pulp_optimization   *)
(* and optimise_transfer_strategy, with report_multi_week_transfers.  Each *)
(* is one call: build, solve, read the result off the variables.  After a  *)
(* solve that did not end Optimal the variables hold whatever the solver   *)
(* left in them; the model lets any small set of them read 1.              *)
(***************************************************************************)
SelectorFns == {"optimize_squad", "run_pulp_optimization", "optimise_transfer_strategy"}
SquadBudgets(v) == {0, SquadCost(Base, v) - 5, SquadCost(Base, v), 2 * SquadCost(Base, v)}
Exclusions == SubsetsUpTo(PLAYERS, MaxExcluded)
CurrentSquads == {Base, Base \ {1}, (Base \ {8}) \cup {NPlayers}}
TransferExclusions == {{}, {NPlayers}}

\* A second catalogue for the squad selectors: twenty players, 4 goalkeepers
\* priced 4.0-5.5, 8 defenders priced 4.0-6.5, 6 midfielders priced 5.0-10.0
\* and 2 forwards priced 6.0-9.0 (prices in tenths), selected under the
\* default budget of both selectors.
Catalogues == {"generated", "twenty"}
TwentyPlayers == 1..20
DefaultBudget == 1000
TwentyPosition(p) == IF p <= 4 THEN 1 ELSE IF p <= 12 THEN 2 ELSE IF p <= 18 THEN 3 ELSE 4
TwentyPrice(p, v) ==
    IF p <= 4 THEN 40 + 5 * ((p + v) % 4)
    ELSE IF p <= 12 THEN 40 + 5 * ((p + v) % 6)
    ELSE IF p <= 18 THEN 50 + 10 * ((p + v) % 6)
    ELSE 60 + 15 * ((p + v) % 3)
TwentyTeam(p) == ((p - 1) % NTeams) + 1
TwentyScore(p, v) == 4 * ((p * (v + 2)) % 7) + (p % 4)

\* the players the selectors' dicts describe
CataloguePlayers == IF args.catalogue = "twenty" THEN TwentyPlayers ELSE PLAYERS

\* The catalogue run_pulp_optimization is given may hold players whose status
\* is not 'a': get_available_player_ids filters on status and then adds the
\* ten players of the most total points whatever their status.
InitSelect ==
    /\ \E fn \in SelectorFns, v \in 1..NVariants, left_out \in Exclusions,
          unavailable \in Exclusions, sq \in CurrentSquads, itb \in ItbChoices,
          ta \in 0..MaxTransfers, catalogue \in Catalogues :
       \E budget \in SquadBudgets(v) \cup {DefaultBudget} :
         /\ fn = "optimise_transfer_strategy" =>
               /\ budget = 0
               /\ left_out \in TransferExclusions
               /\ unavailable \in TransferExclusions
         /\ fn # "optimise_transfer_strategy" => sq = Base /\ itb = 0 /\ ta = 0
         /\ catalogue = "generated" => budget \in SquadBudgets(v)
         /\ catalogue = "twenty" =>
               /\ fn # "optimise_transfer_strategy"
               /\ budget = DefaultBudget
               /\ left_out = {} /\ unavailable = {}
         /\ args = [fn |-> fn,
                    variant |-> v,
                    catalogue |-> catalogue,
                    player_ids |-> IF catalogue = "twenty" THEN TwentyPlayers
                                   ELSE PLAYERS \ left_out,
                    unavailable |-> unavailable,
                    budget |-> budget,
                    current_squad |-> sq,
                    money_itb |-> itb,
                    transfers_available |-> ta]
    /\ pc = "start"
    /\ status = "NotSolved"
    /\ X = << >>
    /\ I = << >>
    /\ O = << >>
    /\ FT = << >>
    /\ T_Free = << >>
    /\ P = << >>
    /\ S = << >>
    /\ C = << >>
    /\ gameweek_reports = << >>
    /\ result = << >>
    /\ printed = << >>
    /\ first_call = << >>
    /\ files = << >>

\* the fields of a player's dict
price == [i \in CataloguePlayers |->
             IF args.catalogue = "twenty" THEN TwentyPrice(i, args.variant)
             ELSE CatCost(i, args.variant)]
position_id == [i \in CataloguePlayers |->
                   IF args.catalogue = "twenty" THEN TwentyPosition(i)
                   ELSE CatPosition(i, args.variant)]
team_id == [i \in CataloguePlayers |->
               IF args.catalogue = "twenty" THEN TwentyTeam(i)
               ELSE CatTeam(i, args.variant)]
rppm == [i \in CataloguePlayers |->
            IF args.catalogue = "twenty" THEN TwentyScore(i, args.variant)
            ELSE CatScore(i, 1, args.variant)]
available(i) == i \notin args.unavailable

\* the squads the solver may try: all but a few of the catalogue
SquadCandidates(ids) ==
    {ids \ b : b \in SubsetsUpTo(ids, IF Cardinality(ids) > SQUAD_SIZE
                                       THEN Cardinality(ids) - SQUAD_SIZE ELSE 0)}

LeftoverSets(ids) == SubsetsUpTo(ids, MaxLeftover)

(***************************************************************************)
(* optimize_squad(player_data, budget)                                     *)
(***************************************************************************)
OS_Unavailable(x) == \A i \in x : available(i)
OS_Total_Players(x) == Cardinality(x) = 15
OS_Budget_Floor(x) == Sum(price, x) >= args.budget
OS_Budget(x) == Sum(price, x) <= args.budget
OS_Positions(x) ==
    /\ Cardinality({i \in x : position_id[i] = 1}) = 2
    /\ Cardinality({i \in x : position_id[i] = 2}) = 5
    /\ Cardinality({i \in x : position_id[i] = 3}) = 5
    /\ Cardinality({i \in x : position_id[i] = 4}) = 3
OS_Teams(x, ids) ==
    \A t_id \in {team_id[i] : i \in ids} :
        Cardinality({i \in x : team_id[i] = t_id}) <= 3

OS_Feasible(ids) ==
    {x \in SquadCandidates(ids) :
        /\ OS_Unavailable(x) /\ OS_Total_Players(x) /\ OS_Budget(x)
        /\ OS_Positions(x) /\ OS_Teams(x, ids)}

\* the feasible squads of the largest objective
BestSquads(feasible, score) ==
    LET scored == {<<x, Sum(score, x)>> : x \in feasible}
        best == MaxOf({sc[2] : sc \in scored})
    IN {sc[1] : sc \in {q \in scored : q[2] = best}}

optimize_squad ==
    /\ pc = "start"
    /\ args.fn = "optimize_squad"
    /\ LET feasible == OS_Feasible(args.player_ids) IN
          IF feasible = {}
          THEN /\ status' = "Infeasible"
               /\ \E player_vars \in LeftoverSets(args.player_ids) :
                     result' = [selected_players |-> player_vars]
          ELSE /\ status' = "Optimal"
               /\ \E player_vars \in BestSquads(feasible, rppm) :
                     result' = [selected_players |-> player_vars]
    /\ pc' = "returned"
    /\ UNCHANGED <<args, mgoVars, printed, first_call, files>>

(***************************************************************************)
(* run_pulp_optimization(player_data_dict, budget_cap)                     *)
(***************************************************************************)
Squad_Size_Constraint(x) == Cardinality(x) = 15
Budget_Constraint_InTenths(x) == Sum(price, x) <= 10 * args.budget
Budget_Constraint(x) == Sum(price, x) <= args.budget
Position_Constraint(x) ==
    \A pos_id \in DOMAIN POS_LIMITS :
        Cardinality({i \in x : position_id[i] = pos_id}) = POS_LIMITS[pos_id]
Team_Limit_Constraint(x, ids) ==
    \A team \in {team_id[i] : i \in ids} :
        Cardinality({i \in x : team_id[i] = team}) <= 3

RP_Feasible(ids) ==
    {x \in SquadCandidates(ids) :
        /\ Squad_Size_Constraint(x) /\ Budget_Constraint(x)
        /\ Position_Constraint(x) /\ Team_Limit_Constraint(x, ids)}

run_pulp_optimization ==
    /\ pc = "start"
    /\ args.fn = "run_pulp_optimization"
    /\ LET feasible == RP_Feasible(args.player_ids) IN
          IF feasible = {}
          THEN /\ status' = "Infeasible"
               /\ result' = [status |-> "Infeasible", squad |-> {}]
          ELSE /\ status' = "Optimal"
               /\ \E player_vars \in BestSquads(feasible, rppm) :
                     result' = [status |-> "Optimal",
                                total_matr_score |-> Sum(rppm, player_vars),
                                squad |-> player_vars]
    /\ pc' = "returned"
    /\ UNCHANGED <<args, mgoVars, printed, first_call, files>>

(***************************************************************************)
(* optimise_transfer_strategy(current_squad, all_players, money_itb,       *)
(* transfers_available)                                                    *)
(***************************************************************************)
current_ids == args.current_squad
total_budget == args.money_itb + Sum(price, args.current_squad)

\* x[p] == is_in_current + tin[p] - tout[p], with x[p] binary
TS_Ownership(x, tin, tout, ids) ==
    \A p \in ids :
        Ind(p \in x) = Ind(p \in current_ids) + Ind(p \in tin) - Ind(p \in tout)
TS_Squad_Size(x) == Cardinality(x) = 15
TS_Budget(x) == Sum(price, x) <= total_budget
TS_Transfers_Available(tin) == Cardinality(tin) <= args.transfers_available
TS_In_Matches_Out(tin, tout) == Cardinality(tin) = Cardinality(tout)
TS_Positions(x) ==
    \A pos \in DOMAIN POS_LIMITS :
        Cardinality({i \in x : position_id[i] = pos}) = POS_LIMITS[pos]
TS_Teams(x, ids) ==
    \A t_id \in {team_id[i] : i \in ids} :
        Cardinality({i \in x : team_id[i] = t_id}) <= 3
TS_Formation(st) ==
    /\ Cardinality(st) = 11
    /\ Cardinality({i \in st : position_id[i] = 1}) = 1
    /\ Cardinality({i \in st : position_id[i] = 2}) >= 3
    /\ Cardinality({i \in st : position_id[i] = 3}) >= 3
    /\ Cardinality({i \in st : position_id[i] = 4}) >= 1

\* the starters the solver may try are drawn from x: s[p] <= x[p]
TS_Starters(x) ==
    {st \in {x \ b : b \in SubsetsUpTo(x, IF Cardinality(x) > 11
                                          THEN Cardinality(x) - 11 ELSE 0)} :
        TS_Formation(st)}

\* the objective in thousandths: the available starters' rppm, 0.001 a player
TS_Objective(x, st) ==
    1000 * Sum(rppm, {i \in st : available(i)}) + Cardinality(x)

\* the (in, out, squad) triples that satisfy the constraints on x
TS_Plans(ids) ==
    {pl \in {<<pr[1], pr[2],
                 {p \in ids : Ind(p \in current_ids) + Ind(p \in pr[1]) - Ind(p \in pr[2]) = 1}>> :
                pr \in SubsetsUpTo(ids, MaxTransfers) \X SubsetsUpTo(ids, MaxTransfers)} :
        /\ TS_Transfers_Available(pl[1])
        /\ TS_In_Matches_Out(pl[1], pl[2])
        /\ TS_Ownership(pl[3], pl[1], pl[2], ids)
        /\ TS_Squad_Size(pl[3]) /\ TS_Budget(pl[3])
        /\ TS_Positions(pl[3]) /\ TS_Teams(pl[3], ids)
        /\ TS_Starters(pl[3]) # {}}

\* the plans of the largest objective
TS_Optimal(plans) ==
    LET squad_best == {<<x, MaxOf({TS_Objective(x, st) : st \in TS_Starters(x)})>> :
                          x \in {pl[3] : pl \in plans}}
        best == MaxOf({sb[2] : sb \in squad_best})
    IN {pl \in plans : \E sb \in squad_best : sb[1] = pl[3] /\ sb[2] = best}

optimise_transfer_strategy ==
    /\ pc = "start"
    /\ args.fn = "optimise_transfer_strategy"
    /\ LET plans == TS_Plans(args.player_ids) IN
          IF plans = {}
          THEN /\ status' = "Infeasible"
               /\ \E tin \in LeftoverSets(args.player_ids),
                     tout \in LeftoverSets(args.player_ids) :
                     result' = [in |-> tin, out |-> tout]
          ELSE /\ status' = "Optimal"
               /\ \E pl \in TS_Optimal(plans) :
                     result' = [in |-> pl[1], out |-> pl[2]]
    /\ pc' = "returned"
    /\ UNCHANGED <<args, mgoVars, printed, first_call, files>>

(***************************************************************************)
(* report_multi_week_transfers(plan, bootstrap_data)                       *)
(***************************************************************************)
RECURSIVE InIdOrder(_)
InIdOrder(set) ==
    IF set = {} THEN << >>
    ELSE LET m == CHOOSE e \in set : \A o \in set : e <= o
         IN <<m>> \o InIdOrder(set \ {m})

Hold == [text |-> "No transfers recommended (Hold)", out |-> NoPlayer, in |-> NoPlayer]
IndexError == [text |-> "IndexError", out |-> NoPlayer, in |-> NoPlayer]

report_multi_week_transfers ==
    /\ pc = "returned"
    /\ args.fn = "optimise_transfer_strategy"
    /\ LET plan_in == InIdOrder(result.in)
           plan_out == InIdOrder(result.out)
           shown == IF Len(plan_in) <= Len(plan_out) THEN Len(plan_in) ELSE Len(plan_out)
           lines == [i \in 1..shown |->
                        [text |-> "swap", out |-> plan_out[i], in |-> plan_in[i]]]
       IN printed' = IF Len(plan_in) = 0 /\ Len(plan_out) = 0 THEN <<Hold>>
                     ELSE IF Len(plan_out) < Len(plan_in) THEN Append(lines, IndexError)
                     ELSE lines
    /\ pc' = "printed"
    /\ UNCHANGED <<args, status, mgoVars, result, first_call, files>>

NextSelect ==
    \/ optimize_squad
    \/ run_pulp_optimization
    \/ optimise_transfer_strategy
    \/ report_multi_week_transfers

SpecSelect == InitSelect /\ [][NextSelect]_vars

(***************************************************************************)
(* suggest_transfers(current_ids, all_players, future_gws, num_transfers,  *)
(* weight).  all_players is the list of player dicts in id order; the      *)
(* dicts are the caller's objects, so what the function writes into them   *)
(* shows in args.all_players.  weight is the default 0.1 and window_ev is  *)
(* kept in tenths: 10 * rppm + the sum of the fixture scores.              *)
(***************************************************************************)
SuggestSquads == CurrentSquads \cup {{}}

fixture_comparison(p, v) == [gw \in 1..MaxGws |-> (p + gw * v) % 5]

\* the dict of player i as the caller built it
PlayerDict(i, v, unavailable) ==
    [id |-> i,
     rppm |-> CatScore(i, 1, v),
     price |-> CatCost(i, v),
     position_id |-> CatPosition(i, v),
     status |-> IF i \in unavailable THEN "i" ELSE "a",
     fixture_comparison |-> fixture_comparison(i, v)]

InitSuggest ==
    /\ \E v \in 1..NVariants, sq \in SuggestSquads, unavailable \in Exclusions,
          gws \in {1..n : n \in 1..MaxGws}, num \in 1..MaxSuggested :
          args = [fn |-> "suggest_transfers",
                  variant |-> v,
                  unavailable |-> unavailable,
                  current_ids |-> sq,
                  all_players |-> [i \in PLAYERS |-> PlayerDict(i, v, unavailable)],
                  future_gws |-> gws,
                  num_transfers |-> num]
    /\ pc = "start"
    /\ status = "NotSolved"
    /\ X = << >>
    /\ I = << >>
    /\ O = << >>
    /\ FT = << >>
    /\ T_Free = << >>
    /\ P = << >>
    /\ S = << >>
    /\ C = << >>
    /\ gameweek_reports = << >>
    /\ result = << >>
    /\ printed = << >>
    /\ first_call = << >>
    /\ files = << >>

\* get_window_ev, in tenths
get_window_ev(p, gws) ==
    10 * p.rppm + Sum(p.fixture_comparison, gws \cap DOMAIN p.fixture_comparison)

\* line 11-12: the dict with the key window_ev written into it
WithWindowEv(p, gws) ==
    [id |-> p.id, rppm |-> p.rppm, price |-> p.price, position_id |-> p.position_id,
     status |-> p.status, fixture_comparison |-> p.fixture_comparison,
     window_ev |-> get_window_ev(p, gws)]

\* sorted(..., key=window_ev): ascending, equal keys in list order
RECURSIVE SortedByEv(_, _)
SortedByEv(ids, ev) ==
    IF ids = {} THEN << >>
    ELSE LET first == CHOOSE i \in ids :
                         \A j \in ids : ev[i] < ev[j] \/ (ev[i] = ev[j] /\ i <= j)
         IN <<first>> \o SortedByEv(ids \ {first}, ev)

\* max(candidates, key=window_ev): the first of the largest in list order
BestReplacement(candidates, ev) ==
    CHOOSE i \in candidates :
        \A j \in candidates : ev[i] > ev[j] \/ (ev[i] = ev[j] /\ i <= j)

suggest_transfers ==
    /\ pc = "start"
    /\ args.fn = "suggest_transfers"
    /\ LET all_players == args.all_players
           current_squad == {i \in DOMAIN all_players : i \in args.current_ids}
           available_pool == {i \in DOMAIN all_players :
                                 i \notin args.current_ids /\ all_players[i].status = "a"}
           ev == [i \in current_squad \cup available_pool |->
                     get_window_ev(all_players[i], args.future_gws)]
           current_squad_sorted == SortedByEv(current_squad, ev)
           candidates(weak) ==
               {i \in available_pool :
                   /\ all_players[i].position_id = all_players[weak].position_id
                   /\ all_players[i].price <= all_players[weak].price}
           suggestion(weak) ==
               [Out |-> weak,
                In |-> BestReplacement(candidates(weak), ev),
                Net_Gain |-> ev[BestReplacement(candidates(weak), ev)] - ev[weak]]
           suggested == {k \in 1..args.num_transfers :
                            /\ k <= Len(current_squad_sorted)
                            /\ candidates(current_squad_sorted[k]) # {}
                            /\ suggestion(current_squad_sorted[k]).Net_Gain > 0}
       IN /\ args' = [args EXCEPT !.all_players =
                         [i \in DOMAIN all_players |->
                             IF i \in current_squad \cup available_pool
                             THEN WithWindowEv(all_players[i], args.future_gws)
                             ELSE all_players[i]]]
          /\ IF args.num_transfers > Len(current_squad_sorted)
             THEN /\ status' = "IndexError"
                  /\ result' = << >>
             ELSE /\ status' = "Returned"
                  /\ result' = [transfer_suggestions |->
                                  {suggestion(current_squad_sorted[k]) : k \in suggested}]
    /\ pc' = "returned"
    /\ UNCHANGED <<mgoVars, printed, first_call, files>>

NextSuggest == suggest_transfers

SpecSuggest == InitSuggest /\ [][NextSuggest]_vars

(***************************************************************************)
(* A caller that selects a squad and then selects again from the same      *)
(* catalogue under a larger budget.                                        *)
(***************************************************************************)
InitBudget ==
    /\ InitSelect
    /\ args.fn \in {"optimize_squad", "run_pulp_optimization"}
    /\ args.catalogue = "generated"
    /\ args.unavailable = {}

\* the objective value of the squad a selector returned
SelectedScore(res) ==
    IF "selected_players" \in DOMAIN res THEN Sum(rppm, res.selected_players)
    ELSE Sum(rppm, res.squad)

select_again ==
    /\ pc = "returned"
    /\ args.fn \in {"optimize_squad", "run_pulp_optimization"}
    /\ DOMAIN first_call = {}
    /\ \E budget \in SquadBudgets(args.variant) :
          /\ budget > args.budget
          /\ args' = [args EXCEPT !.budget = budget]
    /\ first_call' = [status |-> status, budget |-> args.budget,
                   score |-> SelectedScore(result)]
    /\ pc' = "start"
    /\ status' = "NotSolved"
    /\ result' = << >>
    /\ UNCHANGED <<mgoVars, printed, files>>

NextBudget ==
    \/ optimize_squad
    \/ run_pulp_optimization
    \/ select_again

SpecBudget == InitBudget /\ [][NextBudget]_vars

(***************************************************************************)
(* mgo_problem.solve() followed to an optimum, for a horizon of two        *)
(* gameweeks: the squad of the first gameweek is the initial squad, the    *)
(* second gameweek is the one transfer gameweek, and the objective is the  *)
(* starters' scores plus the captain's score of both gameweeks minus       *)
(* HIT_COST for every paid transfer.                                       *)
(***************************************************************************)
CollapsedChoices == {2, 8, 14, 15}

InitOptimal ==
    /\ \E v \in 1..NVariants, itb \in ItbChoices, collapsed \in CollapsedChoices :
          args = [caller |-> "fantacy_pulp.py",
                  variant |-> v,
                  missing |-> "none",
                  all_gws |-> <<1, 2>>,
                  initial_squad_ids |-> Base,
                  initial_money_itb |-> itb,
                  initial_team_value |-> SquadCost(Base, v),
                  initial_fts |-> 1,
                  collapsed |-> collapsed]
    /\ pc = "start"
    /\ status = "NotSolved"
    /\ X = << >>
    /\ I = << >>
    /\ O = << >>
    /\ FT = << >>
    /\ T_Free = << >>
    /\ P = << >>
    /\ S = << >>
    /\ C = << >>
    /\ gameweek_reports = << >>
    /\ result = << >>
    /\ printed = << >>
    /\ first_call = << >>
    /\ files = << >>

\* the scores of gameweek t
ScoresOf(t) == [i \in PLAYERS |-> player_scores_matr[<<i, t>>]]

\* the starter sets of squad x that satisfy the constraints J
PlanStarters(x) ==
    {st \in {x \ b : b \in SubsetsUpTo(x, SQUAD_SIZE - XI_SIZE)} :
        XI_Size(st) /\ Min_Form(st) /\ Max_Form(st) /\ Starter_In_Squad(st, x)}

\* <<starters, captain set, xi_score + captain_bonus>> of every lineup of
\* squad x at gameweek t
ScoredLineups(x, t) ==
    LET sc == ScoresOf(t)
        scoredStarters == {<<st, Sum(sc, st)>> : st \in PlanStarters(x)}
    IN {<<q[1][1], {q[2]}, q[1][2] + sc[q[2]]>> :
           q \in {qq \in scoredStarters \X x :
                     Captain_Count({qq[2]}) /\ Captain_Is_Starter({qq[2]}, qq[1][1])}}

\* the largest third component of a set of triples
BestValue(triples) == LET values == {w[3] : w \in triples} IN MaxOf(values)

\* the one squad Squad_Continuity can accept after buying in and selling out
NextSquad(x1, in, out) ==
    {i \in PLAYERS : Ind(i \in x1) + Ind(i \in in) - Ind(i \in out) = 1}

\* the values of the transfer variables of gameweek 2 that satisfy the
\* constraints A-I, given the squad x1 of gameweek 1
TransferPlans(x1) ==
    {pl \in [in : TransferSets, out : TransferSets, ft : FT_LOW..FT_UP,
             tfree : 0..MaxTransfers, p : 0..MaxTransfers] :
        /\ Transfer_Balance(pl.in, pl.out)
        /\ Dynamic_Budget_T1(pl.in, pl.out)
        /\ Squad_Continuity(NextSquad(x1, pl.in, pl.out), x1, pl.in, pl.out)
        /\ StaticSquadConstraints(NextSquad(x1, pl.in, pl.out))
        /\ Total_Transfers_Link(pl.in, pl.tfree, pl.p)
        /\ FT_Usage_Limit(pl.tfree, pl.ft)
        /\ FT_Carryover_Initial(pl.ft, pl.tfree)}

\* the lineups of squad x at gameweek t of the largest score
OptimalLineups(x, t) ==
    LET lineups == ScoredLineups(x, t)
        best == BestValue(lineups)
    IN {l \in lineups : l[3] = best}

\* every optimal assignment, as <<<<transfer plan, squad of gameweek 2,
\* value>>, lineup of gameweek 1, <<squad of gameweek 2, its lineup>>>>
OptimalSolutions(x1) ==
    LET plans == TransferPlans(x1)
        squads == {NextSquad(x1, pl.in, pl.out) : pl \in plans}
        squadBest == {<<x, BestValue(ScoredLineups(x, 2))>> : x \in squads}
        valued == {<<q[1], q[2][1], q[2][2] - HIT_COST * q[1].p>> :
                      q \in {qq \in plans \X squadBest :
                                qq[2][1] = NextSquad(x1, qq[1].in, qq[1].out)}}
        best == BestValue(valued)
        optimal == {w \in valued : w[3] = best}
        second == UNION {{<<x, l>> : l \in OptimalLineups(x, 2)} :
                            x \in {w[2] : w \in optimal}}
    IN {sol \in optimal \X OptimalLineups(x1, 1) \X second : sol[3][1] = sol[1][2]}

SolveOptimal ==
    /\ pc = "built"
    /\ Len(ALL_GWS) = 2
    /\ Initial_Squad_Fix(FixedSquad)
    /\ IF ~(StaticSquadConstraints(FixedSquad) /\ Budget_Limit(FixedSquad))
          \/ PlanStarters(FixedSquad) = {}
       THEN /\ status' = "Infeasible"
            /\ UNCHANGED <<X, I, O, FT, T_Free, P, S, C>>
       ELSE /\ status' = "Optimal"
            /\ \E sol \in OptimalSolutions(FixedSquad) :
                  /\ X' = (1 :> FixedSquad) @@ (2 :> sol[1][2])
                  /\ I' = (2 :> sol[1][1].in)
                  /\ O' = (2 :> sol[1][1].out)
                  /\ FT' = (2 :> sol[1][1].ft)
                  /\ T_Free' = (2 :> sol[1][1].tfree)
                  /\ P' = (2 :> sol[1][1].p)
                  /\ S' = (1 :> sol[2][1]) @@ (2 :> sol[3][2][1])
                  /\ C' = (1 :> sol[2][2]) @@ (2 :> sol[3][2][2])
    /\ pc' = "done"
    /\ UNCHANGED <<args, gameweek_reports, selectVars>>

NextOptimal ==
    \/ solve_multi_gameweek_optimization
    \/ SolveOptimal

SpecOptimal == InitOptimal /\ [][NextOptimal]_vars

(***************************************************************************)
(* fantacy_pulp.py from the solve to the report: the optimum of a horizon  *)
(* of two gameweeks, with no or one free transfer to start with, handed to *)
(* report_mgo_strategy, which reads the scores and the universe the model  *)
(* was built from.                                                         *)
(***************************************************************************)
InitObjective ==
    /\ \E v \in 1..NVariants, itb \in ItbChoices, fts \in 0..1 :
          args = [caller |-> "fantacy_pulp.py",
                  variant |-> v,
                  missing |-> "none",
                  all_gws |-> <<1, 2>>,
                  initial_squad_ids |-> Base,
                  initial_money_itb |-> itb,
                  initial_team_value |-> SquadCost(Base, v),
                  initial_fts |-> fts]
    /\ pc = "start"
    /\ status = "NotSolved"
    /\ X = << >>
    /\ I = << >>
    /\ O = << >>
    /\ FT = << >>
    /\ T_Free = << >>
    /\ P = << >>
    /\ S = << >>
    /\ C = << >>
    /\ gameweek_reports = << >>
    /\ result = << >>
    /\ printed = << >>
    /\ first_call = << >>
    /\ files = << >>

\* value(problem.objective): xi_score + captain_bonus of every gameweek,
\* less HIT_COST for every paid transfer
Total_Cumulative_S_MATR_Score ==
    Sum([t \in DOMAIN S |-> Sum(ScoresOf(t), S[t]) + Sum(ScoresOf(t), C[t])], DOMAIN S)
    - HIT_COST * Sum(P, DOMAIN P)

NextObjective ==
    \/ solve_multi_gameweek_optimization
    \/ SolveOptimal
    \/ report_mgo_strategy

SpecObjective == InitObjective /\ [][NextObjective]_vars

(***************************************************************************)
(* run_starting_xi_optimization(optimal_squad) called on its own: squads   *)
(* of fifteen players taken from the first seventeen of the catalogue,     *)
(* scored with the forecast of one gameweek.                               *)
(***************************************************************************)
XIPool == 1..(SQUAD_SIZE + 2)
XIDropped == {1, 2, 8, 13, SQUAD_SIZE + 1, SQUAD_SIZE + 2}
XISquads == {XIPool \ d : d \in {dd \in SubsetsUpTo(XIDropped, 2) : Cardinality(dd) = 2}}

InitXI ==
    /\ \E v \in 1..NVariants, sq \in XISquads, gw \in 1..MaxGws :
          args = [fn |-> "run_starting_xi_optimization",
                  variant |-> v,
                  optimal_squad |-> sq,
                  gw |-> gw]
    /\ pc = "start"
    /\ status = "NotSolved"
    /\ X = << >>
    /\ I = << >>
    /\ O = << >>
    /\ FT = << >>
    /\ T_Free = << >>
    /\ P = << >>
    /\ S = << >>
    /\ C = << >>
    /\ gameweek_reports = << >>
    /\ result = << >>
    /\ printed = << >>
    /\ first_call = << >>
    /\ files = << >>

\* the 'matr' field of the squad's dicts
squad_matr == [i \in args.optimal_squad |-> CatScore(i, args.gw, args.variant)]

StartingXI ==
    /\ pc = "start"
    /\ args.fn = "run_starting_xi_optimization"
    /\ \E xi \in run_starting_xi_optimization(args.optimal_squad, squad_matr) :
          /\ result' = xi
          /\ status' = xi.status
    /\ pc' = "returned"
    /\ UNCHANGED <<args, mgoVars, printed, first_call, files>>

NextXI == StartingXI

SpecXI == InitXI /\ [][NextXI]_vars

(***************************************************************************)
(* assign_squad_roles(selected_squad): the greedy lineup.  selected_squad  *)
(* is the list of the squad's dicts, here the list of their ids; a dict's  *)
(* rppm is the catalogue's score of one gameweek.  sorted() is stable, and *)
(* with reverse=True equal keys keep the order of the list.                *)
(***************************************************************************)
RECURSIVE ReverseOf(_)
ReverseOf(seq) ==
    IF seq = << >> THEN << >> ELSE Append(ReverseOf(Tail(seq)), Head(seq))

RolesSquads == {InIdOrder(sq) : sq \in XISquads} \cup {ReverseOf(InIdOrder(Base))}

\* the players whose rppm tops the catalogue's scores: none, both keepers of
\* the first fifteen, or a keeper and a midfielder
RolesInForm == {{}, {1, 2}, {2, 9}}

InitRoles ==
    /\ \E v \in 1..NVariants, sq \in RolesSquads, gw \in 1..MaxGws,
          in_form \in RolesInForm :
          args = [fn |-> "assign_squad_roles",
                  variant |-> v,
                  selected_squad |-> sq,
                  gw |-> gw,
                  in_form |-> in_form]
    /\ pc = "start"
    /\ status = "NotSolved"
    /\ X = << >>
    /\ I = << >>
    /\ O = << >>
    /\ FT = << >>
    /\ T_Free = << >>
    /\ P = << >>
    /\ S = << >>
    /\ C = << >>
    /\ gameweek_reports = << >>
    /\ result = << >>
    /\ printed = << >>
    /\ first_call = << >>
    /\ files = << >>

\* x['rppm'] of the squad's dicts
squad_rppm ==
    [i \in {args.selected_squad[k] : k \in DOMAIN args.selected_squad} |->
        IF i \in args.in_form THEN 28 ELSE CatScore(i, args.gw, args.variant)]

\* sorted(list, key=lambda x: x['rppm'], reverse=True)
SortedByRppm_Unsorted(list, rp) == list
RECURSIVE SortedByRppm(_, _)
SortedByRppm(list, rp) ==
    IF list = << >> THEN << >>
    ELSE LET k == CHOOSE k \in DOMAIN list :
                     /\ \A j \in DOMAIN list : rp[list[j]] <= rp[list[k]]
                     /\ \A j \in 1..(k - 1) : rp[list[j]] < rp[list[k]]
         IN <<list[k]>> \o
            SortedByRppm(SubSeq(list, 1, k - 1) \o SubSeq(list, k + 1, Len(list)), rp)

\* [p for p in sorted_players if p['position_id'] == pos]
OfPosition(list, pos) == SelectSeq(list, LAMBDA i : PosOf(i) = pos)

\* list[:n] and list[n:]
FirstN(list, n) == SubSeq(list, 1, IF Len(list) < n THEN Len(list) ELSE n)
FromN(list, n) == SubSeq(list, n + 1, Len(list))

\* lines 307-323: the loop over remaining_pool
RECURSIVE FillStarters(_, _, _)
FillStarters(pool, starters, bench) ==
    IF pool = << >> THEN [starters |-> starters, bench |-> bench]
    ELSE LET p == Head(pool)
             current_defs == Len(OfPosition(starters, 2))
             current_mids == Len(OfPosition(starters, 3))
             current_fwds == Len(OfPosition(starters, 4))
         IN IF Len(starters) < 11
            THEN IF PosOf(p) = 2 /\ current_defs < 5
                 THEN FillStarters(Tail(pool), Append(starters, p), bench)
                 ELSE IF PosOf(p) = 3 /\ current_mids < 5
                 THEN FillStarters(Tail(pool), Append(starters, p), bench)
                 ELSE IF PosOf(p) = 4 /\ current_fwds < 3
                 THEN FillStarters(Tail(pool), Append(starters, p), bench)
                 ELSE FillStarters(Tail(pool), starters, Append(bench, p))
            ELSE FillStarters(Tail(pool), starters, Append(bench, p))

\* the tuple the call returns, or the error that ends it
assign_squad_roles(selected_squad, rp) ==
    LET sorted_players == SortedByRppm(selected_squad, rp)
        gkps == OfPosition(sorted_players, 1)
        defs == OfPosition(sorted_players, 2)
        mids == OfPosition(sorted_players, 3)
        fwds == OfPosition(sorted_players, 4)
    IN IF Len(sorted_players) < 2 \/ Len(gkps) < 2
       THEN [status |-> "IndexError"]
       ELSE LET first_picks == <<gkps[1]>> \o FirstN(defs, 3) \o FirstN(fwds, 1)
                remaining_pool == SortedByRppm(FromN(defs, 3) \o mids \o FromN(fwds, 1), rp)
                filled == FillStarters(remaining_pool, first_picks, << >>)
            IN [status |-> "Returned",
                starters |-> filled.starters,
                bench |-> Append(filled.bench, gkps[2]),
                captain |-> sorted_players[1],
                vice_captain |-> sorted_players[2]]

AssignRoles ==
    /\ pc = "start"
    /\ args.fn = "assign_squad_roles"
    /\ result' = assign_squad_roles(args.selected_squad, squad_rppm)
    /\ status' = result'.status
    /\ pc' = "returned"
    /\ UNCHANGED <<args, mgoVars, printed, first_call, files>>

NextRoles == AssignRoles

SpecRoles == InitRoles /\ [][NextRoles]_vars

(***************************************************************************)
(* forecast_s_matr_for_mgo(fpl_data, fixtures_data_all, matr_rating,       *)
(* mgo_gws) with calculate_fixture_run_score.  The callers pass            *)
(* mgo_gws = gw_id + 1 .. gw_id + FDR_LKFWD, gw_id the next gameweek.  A   *)
(* score is kept in ten-thousandths, as round(.., 4) leaves it.            *)
(***************************************************************************)
\* the fixtures of gameweek g: one team has a blank, the others meet in
\* pairs; the fixtures of the gameweeks before gw_id are finished
FixturesOfEvent(g, v, gw_id) ==
    LET playing == InIdOrder(TEAMS \ {(g % NTeams) + 1})
    IN {[event |-> g,
         team_h |-> playing[2 * k - 1],
         team_a |-> playing[2 * k],
         team_h_difficulty |-> ((playing[2 * k - 1] + 2 * g + v) % 4) + 2,
         team_a_difficulty |-> ((playing[2 * k] * g + v) % 4) + 2,
         finished |-> g < gw_id] : k \in 1..(Len(playing) \div 2)}

fixtures_data(last_event, v, gw_id) ==
    UNION {FixturesOfEvent(g, v, gw_id) : g \in 1..last_event}

InitForecast ==
    /\ \E v \in 1..NVariants, gw_id \in 1..MaxGws, n \in 1..MaxGws,
          last_event \in (MaxGws + 1)..(2 * MaxGws + 1) :
          args = [fn |-> "forecast_s_matr_for_mgo",
                  variant |-> v,
                  gw_id |-> gw_id,
                  fixtures_data_all |-> fixtures_data(last_event, v, gw_id),
                  mgo_gws |-> [k \in 1..n |-> gw_id + k]]
    /\ pc = "start"
    /\ status = "NotSolved"
    /\ X = << >>
    /\ I = << >>
    /\ O = << >>
    /\ FT = << >>
    /\ T_Free = << >>
    /\ P = << >>
    /\ S = << >>
    /\ C = << >>
    /\ gameweek_reports = << >>
    /\ result = << >>
    /\ printed = << >>
    /\ first_call = << >>
    /\ files = << >>

\* p.get('s_matr_score', 0.0) of the current ratings, and the player's team
player_pp90m == [p \in PLAYERS |-> CatScore(p, 1, args.variant)]
player_team_id(p) == CatTeam(p, args.variant)

\* the difficulty a fixture has for one of its two teams
DifficultyFor(f, team) ==
    IF f.team_h = team THEN f.team_h_difficulty ELSE f.team_a_difficulty

\* calculate_fixture_run_score(fixtures_data, bootstrap_data, current_gw, window)
calculate_fixture_run_score(fixtures, current_gw, window) ==
    LET start_gw == current_gw + 1
        end_gw == current_gw + window
        upcoming_fixtures == {f \in fixtures : start_gw <= f.event /\ f.event <= end_gw}
        counted == {f \in upcoming_fixtures : ~f.finished}
    IN [team \in TEAMS |->
           LET of_team == {f \in counted : f.team_h = team \/ f.team_a = team}
           IN Sum([f \in of_team |-> DifficultyFor(f, team)], of_team)]

\* round(pp90m / (fdr_score_t + 0.1), 4), in ten-thousandths; 10 * fdr + 1
\* is odd, so no quotient lies half way between two of them
s_matr_t(pp90m, fdr_score_t) ==
    IF fdr_score_t = 0 THEN 0
    ELSE (2 * 100000 * pp90m + (10 * fdr_score_t + 1)) \div (2 * (10 * fdr_score_t + 1))

forecast_s_matr_for_mgo(fixtures, mgo_gws) ==
    [key \in PLAYERS \X {mgo_gws[k] : k \in DOMAIN mgo_gws} |->
        LET gw_t == key[2]
            window_size == mgo_gws[Len(mgo_gws)] - gw_t + 1
            fixture_run_score_t == calculate_fixture_run_score(fixtures, gw_t, window_size)
        IN s_matr_t(player_pp90m[key[1]], fixture_run_score_t[player_team_id(key[1])])]

Forecast ==
    /\ pc = "start"
    /\ args.fn = "forecast_s_matr_for_mgo"
    /\ result' = forecast_s_matr_for_mgo(args.fixtures_data_all, args.mgo_gws)
    /\ status' = "Returned"
    /\ pc' = "returned"
    /\ UNCHANGED <<args, mgoVars, printed, first_call, files>>

NextForecast == Forecast

SpecForecast == InitForecast /\ [][NextForecast]_vars

(***************************************************************************)
(* fetch_manager(manager_id, current_gw) and get_initial_squad_from_fpl(   *)
(* manager_id, current_gw): the picks of a manager, read from the cache    *)
(* file when it exists and from the API otherwise.  The files stay in the  *)
(* working directory from one call to the next.  Money is kept in tenths,  *)
(* the unit of the API, where the code divides by 10.                      *)
(***************************************************************************)
ManagerFns == {"fetch_manager", "get_initial_squad_from_fpl"}
Managers == {1, 2}

\* the response of entry/{manager_id}/event/{current_gw}/picks/
PicksResponse(manager_id, current_gw) ==
    [picks |-> (Base \ {current_gw}) \cup {SQUAD_SIZE + manager_id},
     entry_history |-> [bank |-> 5 * manager_id + current_gw,
                        value |-> 1000 + 10 * current_gw + manager_id]]

\* json null: what a failed request leaves in the file
Null == [null |-> TRUE]

InitManager ==
    /\ \E fn \in ManagerFns, m \in Managers, gw \in 1..MaxGws :
          args = [fn |-> fn, manager_id |-> m, current_gw |-> gw, call |-> 1]
    /\ pc = "start"
    /\ status = "NotSolved"
    /\ X = << >>
    /\ I = << >>
    /\ O = << >>
    /\ FT = << >>
    /\ T_Free = << >>
    /\ P = << >>
    /\ S = << >>
    /\ C = << >>
    /\ gameweek_reports = << >>
    /\ result = << >>
    /\ printed = << >>
    /\ first_call = << >>
    /\ files = << >>

\* line 108 of fpl_api.py, line 9 of fantasy_player.py
cache_filename ==
    IF args.fn = "fetch_manager" THEN <<"fpl_manager_data.json", args.manager_id>>
    ELSE <<"fpl_manager_xi_data.json">>

\* lines 124-133: the tuple made of the loaded response
ManagerTuple(manager_starting_xi) ==
    [squad_ids |-> manager_starting_xi.picks,
     money_itb |-> manager_starting_xi.entry_history.bank,
     total_team_value |-> manager_starting_xi.entry_history.value
                             - manager_starting_xi.entry_history.bank,
     free_transfers |-> 1]

\* one call of either loader; get_fpl_data returns the response, or None
\* when the request fails
LoadManager ==
    /\ pc = "start"
    /\ args.fn \in ManagerFns
    /\ IF cache_filename \in DOMAIN files /\ files[cache_filename] # Null
       THEN /\ result' = ManagerTuple(files[cache_filename])
            /\ status' = "Returned"
            /\ files' = files
       ELSE \E fetched \in {PicksResponse(args.manager_id, args.current_gw), Null} :
               /\ files' = [n \in DOMAIN files \cup {cache_filename} |->
                               IF n = cache_filename THEN fetched ELSE files[n]]
               /\ IF fetched = Null
                  THEN result' = << >> /\ status' = "AttributeError"
                  ELSE result' = ManagerTuple(fetched) /\ status' = "Returned"
    /\ pc' = "returned"
    /\ UNCHANGED <<args, mgoVars, printed, first_call>>

\* the next run of a script in the same working directory
NextManagerCall ==
    /\ pc = "returned"
    /\ args.fn \in ManagerFns
    /\ args.call < MaxCalls
    /\ \E fn \in ManagerFns, m \in Managers, gw \in 1..MaxGws :
          args' = [fn |-> fn, manager_id |-> m, current_gw |-> gw,
                   call |-> args.call + 1]
    /\ pc' = "start"
    /\ status' = "NotSolved"
    /\ result' = << >>
    /\ UNCHANGED <<mgoVars, printed, first_call, files>>

NextManager ==
    \/ LoadManager
    \/ NextManagerCall

SpecManager == InitManager /\ [][NextManager]_vars

(***************************************************************************)
(* Claims about the multi-period model.                                    *)
(***************************************************************************)
Solved == pc = "done" /\ status = "Optimal"
Cost(set) == Sum(player_costs, set)
CountPos(x, pos) == Cardinality({i \in x : CatPosition(i, args.variant) = pos})
CountTeam(x, team) == Cardinality({i \in x : CatTeam(i, args.variant) = team})
Min(a, b) == IF a <= b THEN a ELSE b

\* C1 (as claimed): in every assignment satisfying the model and every
\* transfer gameweek t, I[t] is exactly the set of players owned at t and not
\* at t-1, O[t] exactly the set owned at t-1 and not at t, and they have the
\* same size.
C1_TransfersAreSquadDifferences ==
    Solved =>
        \A t \in DOMAIN I :
            /\ I[t] = X[t] \ X[t - 1]
            /\ O[t] = X[t - 1] \ X[t]
            /\ Cardinality(I[t]) = Cardinality(O[t])

\* C2 (as claimed): after transfer gameweeks in which no free transfer was
\* used, holding again is feasible in the next one: the ledger has a value
\* within its bounds, one more than before or the upper bound.
C2_HoldingStaysFeasible ==
    (/\ pc = "solving"
     /\ DOMAIN T_Free # {}
     /\ \A u \in DOMAIN T_Free : T_Free[u] = 0)
    => \E ft \in FT_LOW..FT_UP :
          /\ LedgerConstraints(Len(X) + 1, {}, ft, 0, 0)
          /\ ft = Min(FT[Len(X)] + 1, FT_UP)

\* C3 (as claimed): in the first transfer gameweek every number k of
\* transfers up to initial_fts can be made free of hits, and no assignment
\* uses more than initial_fts free transfers there.
C3_InitialFtsAreTheAllowance ==
    /\ (pc = "solving" /\ Len(X) = 1) =>
          \A k \in 0..Min(args.initial_fts, MaxTransfers) :
              \E ft \in FT_LOW..FT_UP : LedgerConstraints(2, 1..k, ft, k, 0)
    /\ \A t \in DOMAIN T_Free : t = 2 => T_Free[t] <= args.initial_fts

\* C4: in every gameweek of every assignment the owned set has exactly 15
\* players, exactly 2 keepers, 5 defenders, 5 midfielders and 3 forwards, and
\* at most 3 players of any team.
C4_SquadComposition ==
    \A t \in DOMAIN X :
        /\ Cardinality(X[t]) = 15
        /\ CountPos(X[t], 1) = 2 /\ CountPos(X[t], 2) = 5
        /\ CountPos(X[t], 3) = 5 /\ CountPos(X[t], 4) = 3
        /\ \A team \in TEAMS : CountTeam(X[t], team) <= 3

\* a solved plan in which a player who was not owned was bought
C4_Witness ==
    /\ Solved
    /\ \E t \in DOMAIN I : I[t] \ X[t - 1] # {} /\ X[t] # X[t - 1]

\* C5: in every lineup that satisfies the model, the starters of the gameweek
\* are exactly 11 players, all owned in that gameweek, with exactly 1 keeper,
\* 3 to 5 defenders, 2 to 5 midfielders and 1 to 3 forwards, and the captain
\* is exactly one player, who is one of that gameweek's starters.
C5_LineupValid ==
    \A t \in DOMAIN S :
        /\ Cardinality(S[t]) = 11
        /\ S[t] \subseteq X[t]
        /\ CountPos(S[t], 1) = 1
        /\ CountPos(S[t], 2) \in 3..5
        /\ CountPos(S[t], 3) \in 2..5
        /\ CountPos(S[t], 4) \in 1..3
        /\ Cardinality(C[t]) = 1
        /\ C[t] \subseteq S[t]

\* a lineup of a transfer gameweek in which a player bought in that gameweek
\* starts and another one is the captain
C5_Witness ==
    /\ pc = "lineup"
    /\ \E t \in DOMAIN S :
          /\ t > t_start
          /\ (X[t] \ X[t - 1]) \cap S[t] # {}
          /\ C[t] \cap X[t - 1] # {}

\* C6 (as claimed): once a solved plan has been handed to the reporter, every
\* gameweek of the horizon has a vice-captain, one player, who is in that
\* gameweek's starting XI and is not that gameweek's captain.
C6_ViceCaptainDesignated ==
    /\ \A k \in 1..Len(gameweek_reports) :
          LET r == gameweek_reports[k] IN
             /\ r.XI_Status = "Optimal"
             /\ r.Vice_Captain # NoPlayer
             /\ r.Vice_Captain \in r.Starting_XI
             /\ r.Vice_Captain # r.Captain
    /\ (pc = "reported" /\ status # "Infeasible") =>
          Len(gameweek_reports) = Len(ALL_GWS)

\* C7: the buys of the first transfer gameweek cost at most its sells plus
\* the initial bank; the buys of every later transfer gameweek cost at most
\* that gameweek's sells.
C7_RollingBank ==
    \A t \in DOMAIN I :
        Cost(I[t]) <= Cost(O[t]) + (IF t = 2 THEN args.initial_money_itb ELSE 0)

\* a solved plan that spends bank money in the first transfer gameweek and
\* changes the squad in a later one
C7_Witness ==
    /\ Solved
    /\ Cost(I[2]) > Cost(O[2])
    /\ \E t \in DOMAIN I : t > 2 /\ X[t] # X[t - 1]

\* C8 (as claimed): an initial squad that is not 15 players of the universe
\* with the position quotas and the team cap, or a player without price,
\* position or team, ends in an outcome other than the solver's Infeasible.
WellFormedSquad(sq) ==
    /\ sq \subseteq PLAYERS
    /\ Cardinality(sq) = 15
    /\ CountPos(sq, 1) = 2 /\ CountPos(sq, 2) = 5
    /\ CountPos(sq, 3) = 5 /\ CountPos(sq, 4) = 3
    /\ \A team \in TEAMS : CountTeam(sq, team) <= 3

MalformedInput ==
    \/ ~WellFormedSquad(args.initial_squad_ids)
    \/ args.missing # "none"

C8_MalformedInputIsRejected ==
    (pc = "done" /\ MalformedInput) => status \notin {"Infeasible", "Optimal"}

\* the squad selector's problem has a solution
SquadFeasible ==
    IF args.fn = "optimize_squad" THEN OS_Feasible(args.player_ids) # {}
    ELSE RP_Feasible(args.player_ids) # {}

\* C9 (as claimed): when no feasible 15-player squad exists, the squad
\* selector's result carries a status that is not Optimal and no selected
\* player.
C9_InfeasibleSquadIsReported ==
    (/\ pc = "returned"
     /\ args.fn \in {"optimize_squad", "run_pulp_optimization"}
     /\ ~SquadFeasible)
    => /\ "status" \in DOMAIN result
       /\ result.status # "Optimal"
       /\ result.squad = {}

\* C10 (as claimed): the result of optimise_transfer_strategy carries the
\* solver's status, and after a solve that was not Optimal the result has no
\* transfer plan and the reporter does not print the Hold recommendation.
C10_TransferStatusIsSurfaced ==
    args.fn = "optimise_transfer_strategy" =>
       /\ pc \in {"returned", "printed"} =>
             /\ "status" \in DOMAIN result
             /\ result.status = status
             /\ status # "Optimal" => ~({"in", "out"} \subseteq DOMAIN result)
       /\ (pc = "printed" /\ status # "Optimal") => printed # <<Hold>>

\* the squad a squad selector returned
SelectedSquad ==
    IF args.fn = "optimize_squad" THEN result.selected_players ELSE result.squad

SquadSelectorReturned ==
    /\ pc = "returned"
    /\ args.fn \in {"optimize_squad", "run_pulp_optimization"}

\* C11: a squad a squad selector returns after a solve that ended Optimal has
\* exactly 15 players, a total price within the budget, exactly 2 goalkeepers,
\* 5 defenders, 5 midfielders and 3 forwards, and at most 3 players of any
\* one team.
C11_OptimalSquadValid ==
    (SquadSelectorReturned /\ status = "Optimal") =>
       /\ SelectedSquad \subseteq args.player_ids
       /\ Cardinality(SelectedSquad) = 15
       /\ Sum(price, SelectedSquad) <= args.budget
       /\ Cardinality({i \in SelectedSquad : position_id[i] = 1}) = 2
       /\ Cardinality({i \in SelectedSquad : position_id[i] = 2}) = 5
       /\ Cardinality({i \in SelectedSquad : position_id[i] = 3}) = 5
       /\ Cardinality({i \in SelectedSquad : position_id[i] = 4}) = 3
       /\ \A team \in TEAMS :
             Cardinality({i \in SelectedSquad : team_id[i] = team}) <= 3

\* an Optimal squad other than the first fifteen players, under a budget
\* that the whole catalogue's best squad need not fit
C11_Witness ==
    /\ SquadSelectorReturned /\ status = "Optimal"
    /\ SelectedSquad # Base
    /\ args.budget <= SquadCost(Base, args.variant)

\* C12 (as claimed): no player whose status is not 'a' is a member of a squad
\* a squad selector returns after a solve that ended Optimal.
C12_NoUnavailablePlayerSelected ==
    (SquadSelectorReturned /\ status = "Optimal") =>
       \A i \in SelectedSquad : available(i)

\* the call of run_starting_xi_optimization returned an Optimal result
XIReturnedOptimal ==
    /\ pc = "returned"
    /\ args.fn = "run_starting_xi_optimization"
    /\ result.status = "Optimal"

\* C13: for a squad of fifteen players, an Optimal result has eleven starters
\* taken from the squad, with exactly 1 goalkeeper, 3 to 5 defenders, 2 to 5
\* midfielders and 1 to 3 forwards; it names one captain and one
\* vice-captain, both starters and two different players; the bench is the
\* squad without the starters.
C13_StartingXIValid ==
    (XIReturnedOptimal /\ Cardinality(args.optimal_squad) = 15) =>
       /\ result.starting_xi \subseteq args.optimal_squad
       /\ Cardinality(result.starting_xi) = 11
       /\ CountPos(result.starting_xi, 1) = 1
       /\ CountPos(result.starting_xi, 2) \in 3..5
       /\ CountPos(result.starting_xi, 3) \in 2..5
       /\ CountPos(result.starting_xi, 4) \in 1..3
       /\ result.captain \in result.starting_xi
       /\ result.vice_captain \in result.starting_xi
       /\ result.captain # result.vice_captain
       /\ result.bench = args.optimal_squad \ result.starting_xi
       /\ Cardinality(result.bench) = 4

\* an Optimal lineup of a squad that is not 2/5/5/3 (one or three
\* goalkeepers), with a defender on the bench and a forward left out
C13_Witness ==
    /\ XIReturnedOptimal
    /\ CountPos(args.optimal_squad, 1) # 2
    /\ CountPos(result.bench, 2) > 0
    /\ CountPos(result.starting_xi, 4) < CountPos(args.optimal_squad, 4)

\* the lineups the rules allow: eleven starters of the squad in a legal
\* formation
LegalStarters(squad) ==
    {st \in SUBSET squad :
        /\ Cardinality(st) = 11
        /\ CountPos(st, 1) = 1
        /\ CountPos(st, 2) \in 3..5
        /\ CountPos(st, 3) \in 2..5
        /\ CountPos(st, 4) \in 1..3}

\* C14: max_xi_score of an Optimal result is the sum of the starters' scores
\* plus the captain's score once more, and no legal lineup with a captain
\* among its starters has a larger value.
C14_MaxScoreIsOptimal ==
    XIReturnedOptimal =>
       /\ result.max_xi_score =
             Sum(squad_matr, result.starting_xi) + squad_matr[result.captain]
       /\ \A st \in LegalStarters(args.optimal_squad) :
             LET total == Sum(squad_matr, st)
             IN \A c \in st : total + squad_matr[c] <= result.max_xi_score

\* the captain's second count matters and a lineup of a smaller value exists
C14_Witness ==
    /\ XIReturnedOptimal
    /\ squad_matr[result.captain] > 0
    /\ \E i \in result.bench : squad_matr[i] > 0
    /\ \E i \in result.starting_xi :
          squad_matr[i] < squad_matr[result.captain]

\* the squad handed to run_starting_xi_optimization has fifteen players:
\* 2 goalkeepers, 5 defenders, 5 midfielders and 3 forwards
XISquadIsLegal ==
    /\ args.fn = "run_starting_xi_optimization"
    /\ Cardinality(args.optimal_squad) = 15
    /\ CountPos(args.optimal_squad, 1) = 2
    /\ CountPos(args.optimal_squad, 2) = 5
    /\ CountPos(args.optimal_squad, 3) = 5
    /\ CountPos(args.optimal_squad, 4) = 3

\* C15: for every squad of fifteen players with 2 goalkeepers, 5 defenders,
\* 5 midfielders and 3 forwards, whatever the scores, the starting-XI solve
\* ends Optimal, never infeasible.
C15_LegalSquadHasLineup ==
    (pc = "returned" /\ XISquadIsLegal) => result.status = "Optimal"

\* a legal squad other than the first fifteen players got its lineup
C15_Witness ==
    /\ pc = "returned"
    /\ XISquadIsLegal
    /\ args.optimal_squad # Base
    /\ result.status = "Optimal"
    /\ Cardinality(result.starting_xi) = 11

\* the solve does end infeasible for squads that are not legal
XIInfeasibleReached ==
    /\ pc = "returned"
    /\ args.fn = "run_starting_xi_optimization"
    /\ result.status = "Infeasible"

\* a squad selector returned from the twenty-player catalogue
TwentyReturned == SquadSelectorReturned /\ args.catalogue = "twenty"

\* C16 (as claimed): for the catalogue of 4 goalkeepers, 8 defenders,
\* 6 midfielders and 2 forwards under budget 100.0, the squad selector returns
\* an Optimal squad with 2/5/5/3 players by position, a total price of at
\* most 100.0 and a total score no feasible squad exceeds.
C16_TwentyCatalogueSquad ==
    TwentyReturned =>
       /\ status = "Optimal"
       /\ Cardinality({i \in SelectedSquad : position_id[i] = 1}) = 2
       /\ Cardinality({i \in SelectedSquad : position_id[i] = 2}) = 5
       /\ Cardinality({i \in SelectedSquad : position_id[i] = 3}) = 5
       /\ Cardinality({i \in SelectedSquad : position_id[i] = 4}) = 3
       /\ Sum(price, SelectedSquad) <= DefaultBudget
       /\ \A x \in SUBSET args.player_ids :
             (/\ Cardinality(x) = 15
              /\ Sum(price, x) <= DefaultBudget
              /\ Cardinality({i \in x : position_id[i] = 1}) = 2
              /\ Cardinality({i \in x : position_id[i] = 2}) = 5
              /\ Cardinality({i \in x : position_id[i] = 3}) = 5
              /\ Cardinality({i \in x : position_id[i] = 4}) = 3
              /\ \A team \in TEAMS :
                    Cardinality({i \in x : team_id[i] = team}) <= 3)
             => Sum(rppm, x) <= Sum(rppm, SelectedSquad)

\* C16 (amended): for that catalogue the squad model has no solution, the
\* catalogue holding two forwards where three are required: the solve of
\* either selector ends Infeasible, run_pulp_optimization returns the status
\* Infeasible with an empty squad, and no returned squad has three forwards.
C16_TwentyCatalogueInfeasible ==
    TwentyReturned =>
       /\ status = "Infeasible"
       /\ args.fn = "run_pulp_optimization" =>
             result = [status |-> "Infeasible", squad |-> {}]
       /\ Cardinality({i \in SelectedSquad : position_id[i] = 4}) < 3

\* run_pulp_optimization returned from the twenty-player catalogue, which
\* does have enough goalkeepers, defenders and midfielders within budget
C16_Witness ==
    /\ TwentyReturned
    /\ args.fn = "run_pulp_optimization"
    /\ result.status = "Infeasible"
    /\ \E x \in SUBSET {i \in args.player_ids : position_id[i] # 4} :
          /\ Cardinality(x) = 12
          /\ Cardinality({i \in x : position_id[i] = 1}) = 2
          /\ Cardinality({i \in x : position_id[i] = 2}) = 5
          /\ Sum(price, x) + Sum(price, {i \in args.player_ids : position_id[i] = 4})
                <= DefaultBudget

\* the caller's collapsed player is owned and a replacement exists: a player
\* outside the squad of the same position with a positive score in period 2,
\* affordable from the sale and the bank, whose arrival keeps the team cap
ReplacementsOfCollapsed ==
    {r \in PLAYERS \ args.initial_squad_ids :
        /\ player_positions[r] = player_positions[args.collapsed]
        /\ player_scores_matr[<<r, 2>>] > player_scores_matr[<<args.collapsed, 2>>]
        /\ player_costs[r] <= player_costs[args.collapsed] + args.initial_money_itb
        /\ Team_Limit((args.initial_squad_ids \ {args.collapsed}) \cup {r})}

CollapseScenario ==
    /\ "collapsed" \in DOMAIN args
    /\ Len(args.all_gws) = 2
    /\ args.initial_fts = 1
    /\ args.collapsed \in args.initial_squad_ids
    /\ player_scores_matr[<<args.collapsed, 2>>] = 0
    /\ ReplacementsOfCollapsed # {}

\* C17 (as claimed): with two periods and one initial free transfer, when an
\* owned player scores 0 in period 2 and a strictly better replacement that
\* the budget and the caps allow exists, every optimal solution sells that
\* player in period 2 and takes no hit.
C17_CollapsedPlayerIsSold ==
    (Solved /\ CollapseScenario) =>
       /\ args.collapsed \in O[2]
       /\ args.collapsed \notin X[2]
       /\ P[2] = 0

\* the second of two calls of a squad selector has returned
SelectedAgain == SquadSelectorReturned /\ DOMAIN first_call # {}

\* C18: with the catalogue and everything else fixed, a squad selector whose
\* solve was Optimal at a budget is Optimal again at every larger budget, with
\* an objective value that is not smaller.
C18_BudgetMonotone ==
    (SelectedAgain /\ first_call.status = "Optimal") =>
       /\ args.budget > first_call.budget
       /\ status = "Optimal"
       /\ SelectedScore(result) >= first_call.score

\* the larger budget bought a strictly better squad
C18_Witness ==
    /\ SelectedAgain
    /\ first_call.status = "Optimal"
    /\ status = "Optimal"
    /\ SelectedScore(result) > first_call.score

\* the larger budget made an infeasible catalogue feasible
C18_BecameFeasible ==
    /\ SelectedAgain
    /\ first_call.status = "Infeasible"
    /\ status = "Optimal"

\* the lines of a rendered plan
PlanTexts ==
    {"OPTIMAL MGO PLAN", "GAMEWEEK", "Transfers IN", "Transfers OUT", "Point Hit",
     "HOLD", "FT Available Next GW", "Captain", "Vice-Captain",
     "Expected XI Score", "Starting XI", "Bench", "XI Selection Failed"}

\* C19: when the status of the multi-period solve is not Optimal,
\* report_mgo_strategy prints that status and renders no plan: no gameweek
\* report is built and no transfer, HOLD, free-transfer, captain, lineup or
\* score line is printed.
C19_NotOptimalIsReported ==
    (pc = "reported" /\ status \notin {"Optimal", "TypeError"}) =>
       /\ Len(printed) = 1
       /\ \A k \in DOMAIN printed : printed[k].text \notin PlanTexts
       /\ printed[1].status = status
       /\ gameweek_reports = << >>

\* the function was called with an Infeasible solve
C19_Witness ==
    /\ pc = "reported"
    /\ args.caller = "direct"
    /\ status = "Infeasible"
    /\ printed # << >>

\* for an Optimal solve the plan is rendered, with a HOLD line
C19_PlanRendered ==
    /\ pc = "reported"
    /\ status = "Optimal"
    /\ \E k \in DOMAIN printed : printed[k].text = "HOLD"
    /\ \E k \in DOMAIN printed : printed[k].text = "Captain"

\* C20 (as claimed): an optimizer entry point leaves the player dicts it is
\* given as they were: after suggest_transfers has returned, every dict of
\* all_players has the keys and the values the caller gave it.
C20_InputsNotModified ==
    (pc = "returned" /\ args.fn = "suggest_transfers") =>
       \A i \in DOMAIN args.all_players :
          /\ DOMAIN args.all_players[i] =
                DOMAIN PlayerDict(i, args.variant, args.unavailable)
          /\ args.all_players[i] = PlayerDict(i, args.variant, args.unavailable)

\* optimise_transfer_strategy has returned from a solve that ended Optimal
TransferReturnedOptimal ==
    /\ pc \in {"returned", "printed"}
    /\ args.fn = "optimise_transfer_strategy"
    /\ status = "Optimal"

\* the squad a caller obtains from the result: the current squad without the
\* ids of 'out', with the ids of 'in'
AppliedSquad == (args.current_squad \ result.out) \cup result.in

\* C21 (as claimed): for every Optimal result of optimise_transfer_strategy,
\* 'in' and 'out' have the same number of ids, at most transfers_available,
\* and the current squad minus 'out' plus 'in' has 15 assets, 2/5/5/3 by
\* position, at most 3 a team and costs at most money_itb plus the price of
\* the current squad.
C21_AppliedTransfersGiveLegalSquad ==
    TransferReturnedOptimal =>
       /\ Cardinality(result.in) = Cardinality(result.out)
       /\ Cardinality(result.in) <= args.transfers_available
       /\ Cardinality(AppliedSquad) = 15
       /\ \A pos \in DOMAIN POS_LIMITS :
             Cardinality({i \in AppliedSquad : position_id[i] = pos}) = POS_LIMITS[pos]
       /\ \A t \in TEAMS :
             Cardinality({i \in AppliedSquad : team_id[i] = t}) <= 3
       /\ Sum(price, AppliedSquad) <= args.money_itb + Sum(price, args.current_squad)

\* C22 (as claimed): in every result optimise_transfer_strategy returns for a
\* feasible problem no id is in both 'in' and 'out', every id of 'in' is
\* absent from the current squad and every id of 'out' is a member of it.
C22_TransfersAreRealSwaps ==
    TransferReturnedOptimal =>
       /\ result.in \cap result.out = {}
       /\ result.in \cap args.current_squad = {}
       /\ result.out \subseteq args.current_squad

\* assign_squad_roles has ended, on a squad of 2 keepers, 5 defenders,
\* 5 midfielders and 3 forwards
SeqSet(list) == {list[k] : k \in DOMAIN list}
RolesEnded == pc = "returned" /\ args.fn = "assign_squad_roles"
RolesSquadIsLegal ==
    /\ Len(args.selected_squad) = 15
    /\ \A pos \in DOMAIN POS_LIMITS :
          Len(OfPosition(args.selected_squad, pos)) = POS_LIMITS[pos]

\* C23 (as claimed): for every 15-player squad of composition 2/5/5/3,
\* assign_squad_roles returns 11 starters and 4 bench players that partition
\* the squad, the starters in a legal formation, and a captain and a
\* vice-captain that are two distinct starters.
C23_GreedyRolesValid ==
    (RolesEnded /\ RolesSquadIsLegal) =>
       /\ status = "Returned"
       /\ Len(result.starters) = 11
       /\ Len(result.bench) = 4
       /\ Cardinality(SeqSet(result.starters)) = 11
       /\ SeqSet(result.starters) \cap SeqSet(result.bench) = {}
       /\ SeqSet(result.starters) \cup SeqSet(result.bench) = SeqSet(args.selected_squad)
       /\ SeqSet(result.starters) \in LegalStarters(SeqSet(args.selected_squad))
       /\ result.captain # result.vice_captain
       /\ result.captain \in SeqSet(result.starters)
       /\ result.vice_captain \in SeqSet(result.starters)

\* C27: for every squad of composition 2/5/5/3, the rppm total of the eleven
\* starters assign_squad_roles picks is the largest total of any eleven of the
\* squad that meet the formation constraints of run_starting_xi_optimization,
\* and it is the starters' total of every lineup run_starting_xi_optimization
\* can return for the squad with the same scores.
C27_GreedyTotalIsMaximal ==
    (RolesEnded /\ RolesSquadIsLegal) =>
       LET totals == {Sum(squad_rppm, st) : st \in XIStarters(SeqSet(args.selected_squad))}
           lineups == run_starting_xi_optimization(SeqSet(args.selected_squad), squad_rppm)
       IN /\ status = "Returned"
          /\ Sum(squad_rppm, SeqSet(result.starters)) = MaxOf(totals)
          /\ \A xi \in lineups :
                /\ xi.status = "Optimal"
                /\ Sum(squad_rppm, xi.starting_xi) = Sum(squad_rppm, SeqSet(result.starters))

\* the greedy pick was not the eleven highest scores: a benched outfield
\* player has a larger rppm than an outfield starter of another position
C27_Witness ==
    /\ RolesEnded
    /\ RolesSquadIsLegal
    /\ status = "Returned"
    /\ \E b \in SeqSet(result.bench), st \in SeqSet(result.starters) :
          /\ PosOf(b) # 1
          /\ PosOf(st) # 1
          /\ PosOf(st) # PosOf(b)
          /\ squad_rppm[b] > squad_rppm[st]

\* the score made of the difficulties a player's team meets in the
\* gameweeks first..last
ScoreOfRun(p, first, last) ==
    LET run == {f \in args.fixtures_data_all :
                   /\ first <= f.event /\ f.event <= last
                   /\ (f.team_h = player_team_id(p) \/ f.team_a = player_team_id(p))}
    IN s_matr_t(player_pp90m[p],
                Sum([f \in run |-> DifficultyFor(f, player_team_id(p))], run))

ForecastReturned == pc = "returned" /\ args.fn = "forecast_s_matr_for_mgo"

\* C24 (as claimed): for each gameweek t of the horizon the score of every
\* player comes from the fixture difficulties of the gameweeks t through the
\* last gameweek of the horizon, t included, none before t or after the end.
C24_ScoreUsesGwTToEnd ==
    ForecastReturned =>
       \A key \in DOMAIN result :
          result[key] = ScoreOfRun(key[1], key[2], args.mgo_gws[Len(args.mgo_gws)])

\* C25: in every assignment the squad of every gameweek costs at most the
\* initial squad plus initial_money_itb, and from the second transfer gameweek
\* on a squad never costs more than the squad of the gameweek before.
C25_SquadPriceBounded ==
    \A t \in DOMAIN X :
        /\ Cost(X[t]) <= SquadCost(args.initial_squad_ids, args.variant)
                            + args.initial_money_itb
        /\ t > 2 => Cost(X[t]) <= Cost(X[t - 1])

\* a solved plan that leaves the bank unspent in the first transfer gameweek
\* and changes the squad in the second
C25_Witness ==
    /\ Solved
    /\ Len(X) >= 3
    /\ args.initial_money_itb > 0
    /\ Cost(X[2]) <= Cost(X[1])
    /\ X[3] # X[2]
    /\ Cost(X[3]) <= Cost(X[2])

\* the scores and the hits of the report's gameweeks, summed
ReportedScore ==
    Sum([k \in DOMAIN gameweek_reports |-> gameweek_reports[k].Total_Score],
        DOMAIN gameweek_reports)
ReportedHits ==
    Sum([k \in DOMAIN gameweek_reports |-> gameweek_reports[k].Hit],
        DOMAIN gameweek_reports)

\* C26: after an Optimal solve the lineup scores report_mgo_strategy gets by
\* solving run_starting_xi_optimization on each gameweek's squad add up to the
\* objective value of the multi-period model plus 4 for every hit.
C26_ReportedScoresAddUpToObjective ==
    (pc = "reported" /\ status = "Optimal") =>
       /\ \A k \in DOMAIN gameweek_reports : gameweek_reports[k].XI_Status = "Optimal"
       /\ ReportedScore = Total_Cumulative_S_MATR_Score + ReportedHits

\* a reported plan that pays for its transfer
C26_Witness ==
    /\ pc = "reported"
    /\ status = "Optimal"
    /\ P[2] > 0
    /\ X[2] # X[1]
    /\ ReportedHits = 4

\* suggest_transfers has returned its list
SuggestReturned ==
    pc = "returned" /\ args.fn = "suggest_transfers" /\ status = "Returned"
SuggestedOut == {sg.Out : sg \in result.transfer_suggestions}
SuggestedIn == {sg.In : sg \in result.transfer_suggestions}
SuggestedSquad == (args.current_ids \ SuggestedOut) \cup SuggestedIn
PriceOfIds(ids) == Sum([i \in ids |-> args.all_players[i].price], ids)

\* C28 (as claimed): the suggestions of suggest_transfers name pairwise
\* distinct OUT players and pairwise distinct IN players, so that applying all
\* of them leaves a squad of the same size, with the same number of players
\* of every position and a total price not above the original.
C28_SuggestionsApplyTogether ==
    SuggestReturned =>
       /\ Cardinality(SuggestedOut) = Cardinality(result.transfer_suggestions)
       /\ Cardinality(SuggestedIn) = Cardinality(result.transfer_suggestions)
       /\ Cardinality(SuggestedSquad) = Cardinality(args.current_ids)
       /\ \A pos \in DOMAIN POS_LIMITS :
             Cardinality({i \in SuggestedSquad : args.all_players[i].position_id = pos})
                = Cardinality({i \in args.current_ids :
                                  args.all_players[i].position_id = pos})
       /\ PriceOfIds(SuggestedSquad) <= PriceOfIds(args.current_ids)

\* C29: called with a horizon of one gameweek, solve_multi_gameweek_optimization
\* raises (IndexError at TRANSFER_GWS[0], unless the price lookup has failed
\* before it) and returns no model; with two or more gameweeks and complete
\* tables it returns the model.
C29_OnePeriodHorizonRaises ==
    (pc # "start" /\ args.caller \in Callers) =>
       /\ Len(args.all_gws) = 1 =>
             /\ pc = "done"
             /\ status \in {"IndexError", "KeyError"}
             /\ args.missing # "cost" => status = "IndexError"
             /\ X = << >>
       /\ (Len(args.all_gws) >= 2 /\ args.missing = "none") =>
             status \notin {"IndexError", "KeyError"}

\* the call with one gameweek and complete tables has raised IndexError
C29_Witness ==
    /\ pc = "done"
    /\ Len(args.all_gws) = 1
    /\ args.missing = "none"
    /\ status = "IndexError"

\* a horizon of two gameweeks gave a model that was solved
C29_ModelBuilt ==
    /\ Len(args.all_gws) = 2
    /\ Solved

\* a manager loader has returned its tuple
ManagerReturned ==
    pc = "returned" /\ args.fn \in ManagerFns /\ status = "Returned"

\* C30 (as claimed): whatever calls came before, the squad ids, the bank and
\* the team value fetch_manager and get_initial_squad_from_fpl return are
\* those of the manager and the gameweek of the call.
C30_ManagerDataIsOfTheCall ==
    ManagerReturned =>
       result = ManagerTuple(PicksResponse(args.manager_id, args.current_gw))

====
